---- MODULE Spec2Model ----
(***************************************************************************)
(* Statistical-arbitrage pair engine and its backtest driver.              *)
(*                                                                         *)
(* Part I   src/strategy_logic/stat_arb.py: the pair finder, the pair      *)
(*          signal engine with its embedded open-positions store, and the  *)
(*          cycle orchestrator generate_signals.                           *)
(* Part II  src/backtester.py: the bar-by-bar replay with the realistic    *)
(*          and the theoretical portfolio.  The replay invokes the signal  *)
(*          engine per pair with the position passed in, a signature       *)
(*          stat_arb.py does not define; that engine is the operator       *)
(*          signal, written from the specification's contract.             *)
(*                                                                         *)
(* Reasons of signals are carried without their formatted numbers          *)
(* ("PROFIT TARGET" for "PROFIT TARGET (Z-Score crossed 0.0)").            *)
(*                                                                         *)
(* Units.  z-scores, hedge ratios and half-lives are carried in tenths     *)
(* (Z_SCORE_ENTRY = 2.5 is 25, half_life = 5.5 is 55); correlations in     *)
(* hundredths; ADF p-values in thousandths.  Bar counts are plain          *)
(* integers.                                                               *)
(***************************************************************************)
EXTENDS Integers, Sequences, FiniteSets, TLC

VARIABLES
    symbols,          \* configured universe, in the order it is supplied
    candles,          \* candles held by the price store for every symbol
    strategy_cache,   \* stat_arb.strategy_cache
    all_data_dict,    \* the data handed to the engine in the last cycle
    formation,        \* statistics of the formation window of the last pair search
    signals,          \* the list the engine returned in the last cycle
    evaluated,        \* history: open_positions as the last cycle found it
    entered_at,       \* history: store size at which each open position was entered
    i,                     \* backtest: index of the bar being replayed
    length,                \* backtest: len(master_close_df)
    open_price,            \* backtest: the open prices of the loaded history
    realistic_portfolio,   \* backtest: capped portfolio with capital
    theoretical_portfolio, \* backtest: uncapped portfolio
    todo,                  \* backtest: pairs of pairs_in_play not yet visited in bar i
    engine_calls,          \* history: pairs the engine was invoked for in bar i
    last,                  \* history: what the last visit of a pair saw and got
    now,                   \* live: the wall clock at the head of the next cycle
    last_recalc_time,      \* live: strategy_cache["last_recalc_time"]
    actionable_signals,    \* live: the ENTER signals of the last cycle
    cycle,                 \* history: what the last live cycle did
    recalculated,          \* history: what the last completed pair search returned
    setup                  \* backtest: the configuration and what the start-up derived from it

engine_vars == <<symbols, candles, strategy_cache, all_data_dict, formation,
                 signals, evaluated, entered_at>>

engine_only_vars == <<candles, all_data_dict, formation, signals, evaluated,
                      entered_at>>

backtest_vars == <<i, length, open_price, realistic_portfolio,
                   theoretical_portfolio, todo, engine_calls, last, setup>>

live_vars == <<now, last_recalc_time, actionable_signals, cycle, recalculated>>

vars == <<engine_vars, backtest_vars, live_vars>>

---------------------------------------------------------------------------
(* Program constants, stat_arb.py lines 14-22 *)
ROLLING_WINDOW == 60
CORRELATION_THRESHOLD == 90
ADF_P_VALUE_THRESHOLD == 10
MIN_HALF_LIFE == 5
MAX_HALF_LIFE == 50
Z_SCORE_ENTRY == 25
Z_SCORE_STOP_LOSS == 30
Z_SCORE_EXIT == 0

(* Program constants, backtester.py lines 61-67 *)
INITIAL_CAPITAL == 100000000
TRADE_NOTIONAL_PER_PAIR == 25000000
FIXED_THEORETICAL_NOTIONAL == 10000000
TRANSACTION_COST_BPS == 0
ANNUAL_BORROW_COST_PERCENT == 0

(* Bounds of the exploration *)
NumCandles == 75      \* num_candles: rows a frame needs to enter the pair search
FetchSlack == 16      \* rows fetched beyond num_candles (60 in main.py line 202)
MaxBars == 14         \* cycles explored once the fetched frames stopped growing
BatchBars == 3        \* cycles explored with a three-symbol universe
BacktestBars == 6     \* bars replayed with a two-symbol universe
BasketBars == 2       \* bars replayed with a three-symbol universe
(* Configuration of the backtest, scaled down: backtester.py has
   MAX_CONCURRENT_PAIRS = 4 (line 62), FORMATION_PERIOD_CANDLES = 78 days of
   bars (line 93) and PAIR_RECALC_PERIOD_CANDLES = 15 days of bars (line 94) *)
MAX_CONCURRENT_PAIRS == 2
FORMATION_PERIOD_CANDLES == 66
PAIR_RECALC_PERIOD_CANDLES == 2
(* Configuration of the live driver, scaled down: main.py sleeps
   CYCLE_INTERVAL_SECONDS = 900 between cycles (line 166) and has
   PAIR_RECALC_INTERVAL = timedelta(hours=4) (line 167).  The wall clock is
   carried in ticks; a cycle and its sleep take 1..MaxElapsed ticks. *)
PAIR_RECALC_INTERVAL == 4
MaxElapsed == 2
LiveTicks == 7        \* the live driver is followed up to this clock value

---------------------------------------------------------------------------
(* Small helpers *)
Min(a, b) == IF a < b THEN a ELSE b

Abs(x) == IF x < 0 THEN -x ELSE x

EmptyDict == [k \in {} |-> 0]

DictSet(d, k, v) == [x \in (DOMAIN d) \cup {k} |-> IF x = k THEN v ELSE d[x]]

DictDel(d, k) == [x \in (DOMAIN d) \ {k} |-> d[x]]

SeqToSet(s) == {s[k] : k \in 1..Len(s)}

(* itertools.combinations(valid_symbols, 2): index order of the supplied list *)
(* mutation of combinations: every ordered pair of distinct symbols *)
OrderedPairs(syms) ==
    LET n == Len(syms)
    IN [k \in 1..(n * (n - 1)) |->
           LET a == ((k - 1) \div (n - 1)) + 1
               r == ((k - 1) % (n - 1)) + 1
               b == IF r < a THEN r ELSE r + 1
           IN <<syms[a], syms[b]>>]

RECURSIVE CombinationsFrom(_, _, _)
CombinationsFrom(syms, a, b) ==
    IF a >= Len(syms) THEN <<>>
    ELSE IF b > Len(syms) THEN CombinationsFrom(syms, a + 1, a + 2)
    ELSE <<(<<syms[a], syms[b]>>)>> \o CombinationsFrom(syms, a, b + 1)

combinations(syms) ==
    CombinationsFrom(syms, 1, 2)

---------------------------------------------------------------------------
(* Inputs: what the numerical kernels return on the data of one cycle *)

(* z-score of the current bar, in tenths; a universe of more than two
   symbols is explored with the coarse alphabet *)
ZValues(syms) ==
    IF Len(syms) = 2 THEN {-30, -26, -25, 0, 25, 26, 30} ELSE {0, 26}

(* outcome of the rolling fit for one pair: a z-score, a zero standard
   deviation, an exception raised by the OLS fit, or ("tiny") a standard
   deviation that is not zero but below 1e-6, with the z-score it gives;
   "short" and "exact": the two frames share ROLLING_WINDOW - 1, respectively
   exactly ROLLING_WINDOW, rows after dropna *)
Observations(syms) ==
    [kind : {"z"}, z : ZValues(syms)]
        \cup [kind : IF Len(syms) = 2 THEN {"std0", "error"} ELSE {"error"}, z : {0}]
        \cup (IF Len(syms) = 2 THEN {[kind |-> "tiny", z |-> 26]} ELSE {})
        \cup (IF Len(syms) = 2
              THEN {[kind |-> "short", z |-> 0], [kind |-> "exact", z |-> 26]}
              ELSE {})

(* formation-window statistics of one candidate pair *)
AllStatsProfiles ==
    { [corr |-> 95, aligned |-> TRUE, adf_s1 |-> 500, adf_s2 |-> 500,
       adf_spread |-> 5, half_life |-> 50, raises |-> FALSE],
      [corr |-> 95, aligned |-> TRUE, adf_s1 |-> 500, adf_s2 |-> 500,
       adf_spread |-> 5, half_life |-> 55, raises |-> FALSE],
      [corr |-> 90, aligned |-> TRUE, adf_s1 |-> 500, adf_s2 |-> 500,
       adf_spread |-> 5, half_life |-> 50, raises |-> FALSE],
      [corr |-> 95, aligned |-> TRUE, adf_s1 |-> 5, adf_s2 |-> 500,
       adf_spread |-> 5, half_life |-> 50, raises |-> FALSE],
      [corr |-> 95, aligned |-> TRUE, adf_s1 |-> 500, adf_s2 |-> 5,
       adf_spread |-> 5, half_life |-> 50, raises |-> FALSE],
      [corr |-> 95, aligned |-> TRUE, adf_s1 |-> 500, adf_s2 |-> 500,
       adf_spread |-> 10, half_life |-> 50, raises |-> FALSE],
      [corr |-> 95, aligned |-> TRUE, adf_s1 |-> 500, adf_s2 |-> 500,
       adf_spread |-> 5, half_life |-> 501, raises |-> FALSE],
      [corr |-> 95, aligned |-> TRUE, adf_s1 |-> 500, adf_s2 |-> 500,
       adf_spread |-> 5, half_life |-> -10, raises |-> FALSE],
      [corr |-> 95, aligned |-> TRUE, adf_s1 |-> 500, adf_s2 |-> 500,
       adf_spread |-> 5, half_life |-> 50, raises |-> TRUE] }

StatsProfiles(syms) ==
    IF Len(syms) = 2 THEN AllStatsProfiles
    ELSE {st \in AllStatsProfiles :
            /\ st.half_life = 50 /\ st.adf_s1 = 500 /\ st.adf_spread = 5
            /\ (st.raises => st.corr = 95)}

FormationStats(syms) == [SeqToSet(combinations(syms)) -> StatsProfiles(syms)]

(* the data of one cycle: which symbols were fetched, how many rows each
   frame has, and what the kernels make of every pair *)
DataSets(syms, n) ==
    [present : {SeqToSet(syms)} \cup {SeqToSet(syms) \ {s} : s \in SeqToSet(syms)},
     len : {n},
     stat : [SeqToSet(combinations(syms)) -> Observations(syms)]]

---------------------------------------------------------------------------
(* stat_arb.py: the pair finder *)

(* mutation of PairAdmitted: the stationarity of the legs is not tested *)
PairAdmittedWithoutLegTest(st) ==
    /\ ~st.raises
    /\ st.aligned
    /\ st.adf_spread < ADF_P_VALUE_THRESHOLD
    /\ MIN_HALF_LIFE * 10 <= st.half_life
    /\ st.half_life <= MAX_HALF_LIFE * 10

(* lines 84-100: the gates one candidate goes through; an exception or a
   failed gate drops the candidate *)
PairAdmitted(st) ==
    /\ ~st.raises
    /\ st.aligned
    /\ ~(st.adf_s1 < ADF_P_VALUE_THRESHOLD \/ st.adf_s2 < ADF_P_VALUE_THRESHOLD)
    /\ st.adf_spread < ADF_P_VALUE_THRESHOLD
    /\ MIN_HALF_LIFE * 10 <= st.half_life
    /\ st.half_life <= MAX_HALF_LIFE * 10

RECURSIVE CointegrationLoop(_, _, _)
CointegrationLoop(potential_pairs, k, stats) ==
    IF k > Len(potential_pairs) THEN <<>>
    ELSE LET pair == potential_pairs[k]
             rest == CointegrationLoop(potential_pairs, k + 1, stats)
         IN IF PairAdmitted(stats[pair])
            THEN <<[pair |-> pair, half_life |-> stats[pair].half_life]>> \o rest
            ELSE rest

find_cointegrated_pairs(present, stats, syms) ==
    LET valid_symbols == SelectSeq(syms, LAMBDA s : s \in present)
        potential_pairs ==
            SelectSeq(combinations(valid_symbols),
                      LAMBDA p : stats[p].corr > CORRELATION_THRESHOLD)
    IN IF Len(valid_symbols) < 2 THEN <<>>
       ELSE CointegrationLoop(potential_pairs, 1, stats)

---------------------------------------------------------------------------
(* stat_arb.py: the pair signal engine *)

PairSignal(pair, signal_type, reason, z, half_life) ==
    [pair |-> pair, signal_type |-> signal_type, reason |-> reason,
     z_score |-> z, half_life |-> half_life]

(* line 149: int(2.5 * half_life), half_life in tenths *)
time_stop_candles(half_life) == (25 * half_life) \div 100

(* mutation of ProfitTargetHit: the z-score must pass Z_EXIT strictly *)
ProfitTargetHitStrict(direction, z) ==
    \/ direction = "LONG" /\ z > Z_SCORE_EXIT
    \/ direction = "SHORT" /\ z < Z_SCORE_EXIT

(* line 154 *)
ProfitTargetHit(direction, z) ==
    \/ direction = "LONG" /\ z >= Z_SCORE_EXIT
    \/ direction = "SHORT" /\ z <= Z_SCORE_EXIT

(* line 156 *)
StatisticalStopHit(direction, z) ==
    \/ direction = "LONG" /\ z <= -Z_SCORE_STOP_LOSS
    \/ direction = "SHORT" /\ z >= Z_SCORE_STOP_LOSS

(* lines 159-162: bars_held is measured as the growth of the frame *)
TimeStopHit(position, frame_len, half_life) ==
    frame_len - position.entry_index > time_stop_candles(half_life)

(* mutation of ExitReason: the time stop is tested first *)
ExitReasonTimeFirst(position, z, frame_len, half_life) ==
    IF TimeStopHit(position, frame_len, half_life) THEN "TIME STOP"
    ELSE IF ProfitTargetHit(position.direction, z) THEN "PROFIT TARGET"
    ELSE IF StatisticalStopHit(position.direction, z) THEN "STATISTICAL STOP"
    ELSE ""

(* lines 153-162: the if / elif chain *)
ExitReason(position, z, frame_len, half_life) ==
    IF ProfitTargetHit(position.direction, z) THEN "PROFIT TARGET"
    ELSE IF StatisticalStopHit(position.direction, z) THEN "STATISTICAL STOP"
    ELSE IF TimeStopHit(position, frame_len, half_life) THEN "TIME STOP"
    ELSE ""

(* mutation of FlatBranch: the entry thresholds are inclusive *)
FlatBranchInclusive(st, pair_info, z, frame_len) ==
    LET pair == pair_info.pair
    IN IF z >= Z_SCORE_ENTRY
       THEN [open_positions |->
                 DictSet(st.open_positions, pair,
                         [direction |-> "SHORT", entry_index |-> frame_len]),
             signals |-> Append(st.signals,
                 PairSignal(pair, "ENTER_SHORT", "Z-Score > Z_ENTRY", z,
                            pair_info.half_life))]
       ELSE IF z <= -Z_SCORE_ENTRY
       THEN [open_positions |->
                 DictSet(st.open_positions, pair,
                         [direction |-> "LONG", entry_index |-> frame_len]),
             signals |-> Append(st.signals,
                 PairSignal(pair, "ENTER_LONG", "Z-Score < -Z_ENTRY", z,
                            pair_info.half_life))]
       ELSE st

(* lines 171-183: the pair has no entry in open_positions *)
FlatBranch(st, pair_info, z, frame_len) ==
    LET pair == pair_info.pair
    IN IF z > Z_SCORE_ENTRY
       THEN [open_positions |->
                 DictSet(st.open_positions, pair,
                         [direction |-> "SHORT", entry_index |-> frame_len]),
             signals |-> Append(st.signals,
                 PairSignal(pair, "ENTER_SHORT", "Z-Score > Z_ENTRY", z,
                            pair_info.half_life))]
       ELSE IF z < -Z_SCORE_ENTRY
       THEN [open_positions |->
                 DictSet(st.open_positions, pair,
                         [direction |-> "LONG", entry_index |-> frame_len]),
             signals |-> Append(st.signals,
                 PairSignal(pair, "ENTER_LONG", "Z-Score < -Z_ENTRY", z,
                            pair_info.half_life))]
       ELSE st

(* mutation of OpenPositionBranch: the open position is not consulted *)
OpenPositionBranchAsFlat(st, pair_info, z, frame_len) ==
    FlatBranch(st, pair_info, z, frame_len)

(* lines 151-170: the pair has an entry in open_positions *)
OpenPositionBranch(st, pair_info, z, frame_len) ==
    LET pair == pair_info.pair
        position == st.open_positions[pair]
        exit_reason == ExitReason(position, z, frame_len, pair_info.half_life)
    IN IF exit_reason # ""
       THEN [open_positions |-> DictDel(st.open_positions, pair),
             signals |-> Append(st.signals,
                 PairSignal(pair, "EXIT_" \o position.direction, exit_reason, z,
                            pair_info.half_life))]
       ELSE [open_positions |-> st.open_positions,
             signals |-> Append(st.signals,
                 PairSignal(pair, "HOLD_" \o position.direction, "Position Open", z,
                            pair_info.half_life))]

(* lines 121-128: tail(ROLLING_WINDOW) of the aligned frame, as the first and
   the last row it keeps; the OLS fit, spread.mean() and spread.std() are
   taken over these rows *)
rolling_window(frame_len) ==
    [first |-> frame_len - Min(frame_len, ROLLING_WINDOW), last |-> frame_len - 1]

(* line 133: spread.iloc[-1], the row the z-score is computed for *)
current_row(frame_len) ==
    rolling_window(frame_len).last

(* lines 121-122: len(s1_rolling), the rows of rolling_df.tail(ROLLING_WINDOW) *)
RollingRows(ob, frame_len) ==
    IF ob.kind = "short" THEN Min(frame_len, ROLLING_WINDOW - 1)
    ELSE rolling_window(frame_len).last - rolling_window(frame_len).first + 1

(* mutation of WindowTooShort: a window of exactly ROLLING_WINDOW rows is
   refused as well *)
WindowTooShortInclusive(rows) ==
    rows <= ROLLING_WINDOW

(* line 124: len(s1_rolling) < ROLLING_WINDOW *)
WindowTooShort(rows) ==
    rows < ROLLING_WINDOW

(* lines 112-186: one iteration of the loop over pairs_to_check *)
PairIteration(st, pair_info, data) ==
    LET pair == pair_info.pair
        ob == data.stat[pair]
    IN IF pair[1] \notin data.present \/ pair[2] \notin data.present THEN st
       ELSE IF WindowTooShort(RollingRows(ob, data.len)) THEN st
       ELSE IF ob.kind = "error" THEN st
       ELSE IF ob.kind = "std0" THEN st
       ELSE IF pair \in DOMAIN st.open_positions
            THEN OpenPositionBranch(st, pair_info, ob.z, data.len)
            ELSE FlatBranch(st, pair_info, ob.z, data.len)

(* mutation of PairLoop: an exception of the rolling fit leaves the loop *)
RECURSIVE PairLoopAborting(_, _, _, _)
PairLoopAborting(st, pairs_to_check, k, data) ==
    IF k > Len(pairs_to_check) THEN st
    ELSE IF data.stat[pairs_to_check[k].pair].kind = "error" THEN st
    ELSE PairLoopAborting(PairIteration(st, pairs_to_check[k], data),
                          pairs_to_check, k + 1, data)

RECURSIVE PairLoop(_, _, _, _)
PairLoop(st, pairs_to_check, k, data) ==
    IF k > Len(pairs_to_check) THEN st
    ELSE PairLoop(PairIteration(st, pairs_to_check[k], data), pairs_to_check, k + 1, data)

(* lines 104-188: returns the signals and leaves the store updated *)
generate_pair_signals(open_positions, data, pairs_to_check) ==
    PairLoop([open_positions |-> open_positions, signals |-> <<>>],
             pairs_to_check, 1, data)

---------------------------------------------------------------------------
(* The price store: fetch_data returns the last rows of what it holds, as many
   as it is asked for *)
FrameLen(stored) == Min(stored, NumCandles + FetchSlack)

(* stat_arb.py lines 63-67: the frames with at least num_candles rows *)
LongEnough(data) == IF data.len >= NumCandles THEN data.present ELSE {}

Horizon(syms) ==
    IF Len(syms) = 2 THEN NumCandles + FetchSlack + MaxBars
    ELSE NumCandles - 1 + BatchBars

(* history: the store size at entry, kept for the pairs that are open and
   for those the last cycle closed *)
EnteredAt(old, positions_before, positions_after, size) ==
    [p \in (DOMAIN positions_before) \cup (DOMAIN positions_after) |->
        IF p \in DOMAIN positions_before THEN old[p] ELSE size]

(* backtester.py lines 113-114: the two portfolios as they are created *)
NewRealisticPortfolio ==
    [open_trades |-> EmptyDict, closed_trades |-> <<>>,
     capital |-> INITIAL_CAPITAL, trade_id |-> 1, signals_skipped |-> 0]

NewTheoreticalPortfolio ==
    [open_trades |-> EmptyDict, closed_trades |-> <<>>, trade_id |-> 1]

(* the engine's answer when it returns None *)
NoSignal == [signal_type |-> "NONE"]

NoVisit ==
    [pair |-> <<>>, pair_info |-> [pair |-> <<>>, half_life |-> 0],
     signal_real |-> NoSignal, signal_theo |-> NoSignal,
     real_open |-> FALSE, theo_open |-> FALSE, s1_price |-> 0, s2_price |-> 0]

(* the backtest has not been started *)
ReplayIdle ==
    /\ i = 0
    /\ length = 0
    /\ open_price = EmptyDict
    /\ realistic_portfolio = NewRealisticPortfolio
    /\ theoretical_portfolio = NewTheoreticalPortfolio
    /\ todo = {}
    /\ engine_calls = {}
    /\ last = NoVisit

(* the start-up of the backtest is not followed *)
NoSetup == [phase |-> "idle"]

BacktestIdle ==
    /\ ReplayIdle
    /\ setup = NoSetup

(* a live cycle that has not run *)
NoCycle ==
    [at |-> -1, fetched |-> {}, recalc_before |-> -1, refreshed |-> FALSE,
     outcome |-> "none", calls |-> {}, entered_before |-> {}, stored |-> -1]

(* the live driver has not been started *)
LiveIdle ==
    /\ now = -1
    /\ last_recalc_time = -1
    /\ actionable_signals = <<>>
    /\ cycle = NoCycle
    /\ recalculated = <<>>

(* stat_arb.py lines 190-211: one strategy cycle on freshly fetched data *)
generate_signals ==
    /\ candles < Horizon(symbols)
    /\ \E data \in DataSets(symbols, FrameLen(candles + 1)),
          stats \in IF strategy_cache.first_run THEN FormationStats(symbols)
                    ELSE {formation} :
         LET found == IF strategy_cache.first_run
                      THEN find_cointegrated_pairs(LongEnough(data), stats, symbols)
                      ELSE strategy_cache.cointegrated_pairs
             out == IF found = <<>>
                    THEN [open_positions |-> strategy_cache.open_positions,
                          signals |-> <<>>]
                    ELSE generate_pair_signals(strategy_cache.open_positions, data, found)
         IN /\ candles' = candles + 1
            /\ all_data_dict' = data
            /\ formation' = stats
            /\ strategy_cache' = [first_run |-> FALSE,
                                  cointegrated_pairs |-> found,
                                  open_positions |-> out.open_positions]
            /\ signals' = out.signals
            /\ evaluated' = strategy_cache.open_positions
            /\ entered_at' = EnteredAt(entered_at, strategy_cache.open_positions,
                                       out.open_positions, candles + 1)
            /\ UNCHANGED symbols
            /\ UNCHANGED backtest_vars
            /\ UNCHANGED live_vars

EngineInit ==
    /\ symbols \in {<<"A", "B">>, <<"B", "A", "C">>}
    /\ candles \in IF Len(symbols) = 2
                   THEN {ROLLING_WINDOW - 2, NumCandles - 1, NumCandles + FetchSlack}
                   ELSE {NumCandles - 1}
    /\ strategy_cache = [first_run |-> TRUE, cointegrated_pairs |-> <<>>,
                         open_positions |-> EmptyDict]
    /\ all_data_dict = [present |-> {}, len |-> 0, stat |-> EmptyDict]
    /\ formation = EmptyDict
    /\ signals = <<>>
    /\ evaluated = EmptyDict
    /\ entered_at = EmptyDict
    /\ BacktestIdle
    /\ LiveIdle

EngineNext == generate_signals

Spec == EngineInit /\ [][EngineNext]_vars

---------------------------------------------------------------------------
(* Vocabulary of the properties of Part I *)

Signals == SeqToSet(signals)

SignalsOf(pair) == {s \in Signals : s.pair = pair}

PairsToCheck == {strategy_cache.cointegrated_pairs[k].pair :
                    k \in 1..Len(strategy_cache.cointegrated_pairs)}

HalfLifeOf(pair) ==
    (CHOOSE pair_info \in SeqToSet(strategy_cache.cointegrated_pairs) :
        pair_info.pair = pair).half_life

(* the pairs whose z-score the last cycle computed *)
Reached ==
    {p \in PairsToCheck :
        /\ p[1] \in all_data_dict.present /\ p[2] \in all_data_dict.present
        /\ RollingRows(all_data_dict.stat[p], all_data_dict.len) >= ROLLING_WINDOW
        /\ all_data_dict.stat[p].kind \in {"z", "tiny", "exact"}}

ZOf(pair) == all_data_dict.stat[pair].z

(* bars elapsed since the position of the pair was entered *)
BarsSinceEntry(pair) == candles - entered_at[pair]

(* growth of the frame since entry: what the engine takes for bars_held *)
FrameGrowth(pair) == all_data_dict.len - evaluated[pair].entry_index

EmittedWith(pair, signal_type, reason) ==
    \E s \in SignalsOf(pair) : s.signal_type = signal_type /\ s.reason = reason

---------------------------------------------------------------------------
(* C1: every signal the engine emits is consistent with the position state
   it was evaluated against: ENTER_LONG / ENTER_SHORT only for a pair with no
   open position, EXIT_LONG / HOLD_LONG only for a pair whose open position
   is LONG, EXIT_SHORT / HOLD_SHORT only for one whose position is SHORT. *)
C1_SignalConsistentWithState ==
    \A s \in Signals :
        /\ s.signal_type \in {"ENTER_LONG", "ENTER_SHORT", "EXIT_LONG", "HOLD_LONG",
                              "EXIT_SHORT", "HOLD_SHORT"}
        /\ s.signal_type \in {"ENTER_LONG", "ENTER_SHORT"}
              => s.pair \notin DOMAIN evaluated
        /\ s.signal_type \in {"EXIT_LONG", "HOLD_LONG"}
              => s.pair \in DOMAIN evaluated /\ evaluated[s.pair].direction = "LONG"
        /\ s.signal_type \in {"EXIT_SHORT", "HOLD_SHORT"}
              => s.pair \in DOMAIN evaluated /\ evaluated[s.pair].direction = "SHORT"

(* an exit has been emitted against a LONG position that an earlier cycle
   entered, at a z-score still below zero (a stop) *)
C1_Witness ==
    \E s \in Signals :
        /\ s.signal_type = "EXIT_LONG"
        /\ s.pair \in DOMAIN evaluated
        /\ s.z_score < 0

---------------------------------------------------------------------------
(* C2: with a position open, the exit reason follows the priority PROFIT
   TARGET, then STATISTICAL STOP, then TIME STOP: whenever the profit
   condition holds the reason is PROFIT TARGET, STATISTICAL STOP is reported
   only if the profit condition does not hold, and TIME STOP only if neither
   the profit nor the statistical-stop condition holds. *)
C2_ProfitCondition(direction, z) ==
    IF direction = "LONG" THEN z >= Z_SCORE_EXIT ELSE z <= Z_SCORE_EXIT

C2_StopCondition(direction, z) ==
    IF direction = "LONG" THEN z <= -Z_SCORE_STOP_LOSS ELSE z >= Z_SCORE_STOP_LOSS

C2_ExitPriority ==
    \A p \in Reached \cap DOMAIN evaluated :
        LET d == evaluated[p].direction
            profit == C2_ProfitCondition(d, ZOf(p))
            stop == C2_StopCondition(d, ZOf(p))
        IN /\ profit => EmittedWith(p, "EXIT_" \o d, "PROFIT TARGET")
           /\ EmittedWith(p, "EXIT_" \o d, "STATISTICAL STOP") => ~profit
           /\ (~profit /\ stop) => EmittedWith(p, "EXIT_" \o d, "STATISTICAL STOP")
           /\ EmittedWith(p, "EXIT_" \o d, "TIME STOP") => (~profit /\ ~stop)

(* the profit condition and the time-stop condition held on the same bar,
   and PROFIT TARGET was reported *)
C2_Witness ==
    \E p \in Reached \cap DOMAIN evaluated :
        /\ FrameGrowth(p) > time_stop_candles(HalfLifeOf(p))
        /\ C2_ProfitCondition(evaluated[p].direction, ZOf(p))
        /\ EmittedWith(p, "EXIT_" \o evaluated[p].direction, "PROFIT TARGET")

---------------------------------------------------------------------------
(* C3: a position for which neither the profit nor the statistical-stop
   condition holds is exited with TIME STOP on the first evaluated bar where
   the bars held since entry exceed TIME_STOP(h) = round(2.5 * half_life),
   and not before: a position still held after an evaluation has been held
   at most TIME_STOP(h) bars. *)
TimeStopRounded(half_life) ==
    LET q == (25 * half_life) \div 100
        r == (25 * half_life) % 100
    IN IF r > 50 THEN q + 1
       ELSE IF r < 50 THEN q
       ELSE IF q % 2 = 0 THEN q ELSE q + 1

C3_TimeStopAfterRoundedHalfLives ==
    \A p \in Reached \cap DOMAIN evaluated :
        LET d == evaluated[p].direction
        IN /\ EmittedWith(p, "HOLD_" \o d, "Position Open")
                => BarsSinceEntry(p) <= TimeStopRounded(HalfLifeOf(p))
           /\ EmittedWith(p, "EXIT_" \o d, "TIME STOP")
                => BarsSinceEntry(p) > TimeStopRounded(HalfLifeOf(p))

---------------------------------------------------------------------------
(* C4: the engine is deterministic in its arguments: two invocations with
   the same data and the same pairs to check return the same signals,
   whatever was invoked before. *)
C4_SameArgumentsSameSignals ==
    [][(/\ ~strategy_cache.first_run
        /\ all_data_dict' = all_data_dict
        /\ strategy_cache'.cointegrated_pairs = strategy_cache.cointegrated_pairs)
          => signals' = signals]_engine_vars

---------------------------------------------------------------------------
(* C5 as stated: with a position open the engine reports PROFIT TARGET
   exactly when |z| <= Z_EXIT, and HOLD for z outside that band when no
   other exit condition holds. *)
C5_ProfitExactlyInsideMagnitudeBand ==
    \A p \in Reached \cap DOMAIN evaluated :
        EmittedWith(p, "EXIT_" \o evaluated[p].direction, "PROFIT TARGET")
            <=> Abs(ZOf(p)) <= Z_SCORE_EXIT

(* C5 as amended: with a LONG position open the engine reports EXIT_LONG /
   PROFIT TARGET exactly when z >= Z_EXIT, with a SHORT position EXIT_SHORT /
   PROFIT TARGET exactly when z <= Z_EXIT (the z-score has crossed Z_EXIT
   coming from the entry side); for z on the entry side of Z_EXIT, inside the
   stop band and with the frame grown by no more than the time stop, it
   emits HOLD. *)
C5_ProfitExactlyWhenCrossed ==
    \A p \in Reached \cap DOMAIN evaluated :
        LET d == evaluated[p].direction
            z == ZOf(p)
            crossed == IF d = "LONG" THEN z >= Z_SCORE_EXIT ELSE z <= Z_SCORE_EXIT
            stopped == IF d = "LONG" THEN z <= -Z_SCORE_STOP_LOSS
                       ELSE z >= Z_SCORE_STOP_LOSS
            timed == FrameGrowth(p) > (25 * HalfLifeOf(p)) \div 100
        IN /\ EmittedWith(p, "EXIT_" \o d, "PROFIT TARGET") <=> crossed
           /\ (~crossed /\ ~stopped /\ ~timed)
                => /\ EmittedWith(p, "HOLD_" \o d, "Position Open")
                   /\ p \in DOMAIN strategy_cache.open_positions

(* a LONG position met a z-score well above Z_EXIT and was closed for profit *)
C5_Witness ==
    \E p \in Reached \cap DOMAIN evaluated :
        /\ evaluated[p].direction = "LONG"
        /\ ZOf(p) > Z_SCORE_ENTRY
        /\ EmittedWith(p, "EXIT_LONG", "PROFIT TARGET")

---------------------------------------------------------------------------
(* C6: from FLAT the engine emits ENTER_SHORT exactly when z > Z_ENTRY and
   ENTER_LONG exactly when z < -Z_ENTRY; for -Z_ENTRY <= z <= Z_ENTRY it
   emits nothing and the pair stays FLAT. *)
C6_EntryThresholds ==
    \A p \in Reached \ DOMAIN evaluated :
        LET z == ZOf(p)
        IN /\ (\E s \in SignalsOf(p) : s.signal_type = "ENTER_SHORT")
                <=> z > Z_SCORE_ENTRY
           /\ (\E s \in SignalsOf(p) : s.signal_type = "ENTER_LONG")
                <=> z < -Z_SCORE_ENTRY
           /\ (-Z_SCORE_ENTRY <= z /\ z <= Z_SCORE_ENTRY)
                => SignalsOf(p) = {} /\ p \notin DOMAIN strategy_cache.open_positions
           /\ z > Z_SCORE_ENTRY
                => /\ p \in DOMAIN strategy_cache.open_positions
                   /\ strategy_cache.open_positions[p].direction = "SHORT"
           /\ z < -Z_SCORE_ENTRY
                => /\ p \in DOMAIN strategy_cache.open_positions
                   /\ strategy_cache.open_positions[p].direction = "LONG"

(* a FLAT pair met a z-score exactly on the entry threshold and stayed FLAT *)
C6_Witness ==
    \E p \in Reached \ DOMAIN evaluated :
        /\ Abs(ZOf(p)) = Z_SCORE_ENTRY
        /\ SignalsOf(p) = {}
        /\ p \notin DOMAIN strategy_cache.open_positions

---------------------------------------------------------------------------
(* Part II: src/backtester.py *)

(* bars of one trading session in the loaded history, scaled down so that a
   replay spans several days *)
SessionBars == 2

(* mutation of TimestampOf: the index carries the day of a bar only *)
TimestampOfTheDay(t) ==
    (t \div SessionBars) * 1440 + 555

(* The loaded history.  master_close_df.index: bar t in minutes, the
   sessions opening at 09:15 on consecutive days, the bars 5 minutes apart *)
TimestampOf(t) ==
    (t \div SessionBars) * 1440 + 555 + 5 * (t % SessionBars)

(* timedelta.days *)
Days(from, to) == (to - from) \div 1440

(* all_historical_data[s].at[timestamp, 'open'] *)
OpenAt(s, t) ==
    open_price[s].base + open_price[s].drift * (t - FORMATION_PERIOD_CANDLES)

(* all_historical_data[s].loc[:current_timestamp]: a symbol has a row for
   every row of the aligned frame *)
RowsUpTo(s, t) == t + 1

PricePaths(syms) ==
    LET diverging == [s \in SeqToSet(syms) |->
                         [base |-> 100, drift |-> IF s = syms[1] THEN 1 ELSE -1]]
        converging == [s \in SeqToSet(syms) |->
                         [base |-> 100, drift |-> IF s = syms[1] THEN -2 ELSE 1]]
        worthless == [s \in SeqToSet(syms) |->
                         [base |-> IF s = syms[2] THEN 0 ELSE 100, drift |-> 0]]
    IN IF Len(syms) = 2 THEN {diverging, converging, worthless} ELSE {diverging}

(* what the rolling regression of a pair can show on a bar: the z-score and
   the slope beta, or nothing usable *)
BarObservations(syms) ==
    IF Len(syms) = 2
    THEN [kind : {"z"}, z : {-30, -26, 0, 26}, beta : {10}]
            \cup {[kind |-> "z", z |-> 26, beta |-> 0],
                  [kind |-> "z", z |-> 26, beta |-> 20],
                  [kind |-> "z", z |-> -26, beta |-> -20],
                  [kind |-> "none", z |-> 0, beta |-> 0]}
    ELSE [kind : {"z"}, z : {0, 26}, beta : {10}]

BacktestLength(syms) ==
    FORMATION_PERIOD_CANDLES + 1
        + (IF Len(syms) = 2 THEN BacktestBars ELSE BasketBars)

(* The signal engine as the drivers invoke it (lines 144-149):
   generate_pair_signals(pair_data_slice, pair_info, open_position_state)
   returning one signal or None.  stat_arb.py has no function of this
   signature; the contract is that of the specification (section 4.D), and
   the decision chain is the one of stat_arb.py lines 153-183 with the
   position and its bars_held supplied by the caller. *)
signal(ob, pair_info, open_position) ==
    LET z == ob.z
        direction == open_position.direction
        reason == IF ProfitTargetHit(direction, z) THEN "PROFIT TARGET"
                  ELSE IF StatisticalStopHit(direction, z) THEN "STATISTICAL STOP"
                  ELSE IF open_position.bars_held > time_stop_candles(pair_info.half_life)
                       THEN "TIME STOP"
                  ELSE ""
        emit(signal_type, why) ==
            [pair |-> pair_info.pair, signal_type |-> signal_type, reason |-> why,
             z_score |-> z, hedge_ratio |-> ob.beta, half_life |-> pair_info.half_life]
    IN IF ob.kind # "z" THEN NoSignal
       ELSE IF direction # "FLAT"
            THEN IF reason # "" THEN emit("EXIT_" \o direction, reason)
                 ELSE emit("HOLD_" \o direction, "Position Open")
       ELSE IF z > Z_SCORE_ENTRY THEN emit("ENTER_SHORT", "Z-Score > Z_ENTRY")
       ELSE IF z < -Z_SCORE_ENTRY THEN emit("ENTER_LONG", "Z-Score < -Z_ENTRY")
       ELSE NoSignal

(* "EXIT" in signal.signal_type, "ENTER" in signal.signal_type *)
IsExit(sig) == sig.signal_type \in {"EXIT_LONG", "EXIT_SHORT"}

IsEnter(sig) == sig.signal_type \in {"ENTER_LONG", "ENTER_SHORT"}

(* lines 145 and 148: the position state handed to the engine *)
open_pos_info(portfolio, pair_tuple, bar) ==
    IF pair_tuple \in DOMAIN portfolio.open_trades
    THEN [direction |-> portfolio.open_trades[pair_tuple].direction,
          bars_held |-> bar - portfolio.open_trades[pair_tuple].entry_candle_index]
    ELSE [direction |-> "FLAT", bars_held |-> 0]

(* mutation of LegNotionals: the s1 leg gets the whole notional and the s2
   leg |beta| times as much *)
LegNotionalsUnscaled(notional, beta) ==
    [s1 |-> notional, s2 |-> (notional * Abs(beta)) \div 10]

(* lines 175-177: the notional of each leg, to the unit; beta in tenths *)
LegNotionals(notional, beta) ==
    [s1 |-> (notional * 10) \div (10 + Abs(beta)),
     s2 |-> (notional * Abs(beta)) \div (10 + Abs(beta))]

(* mutation of LegQuantities: the notional is split evenly over the legs *)
LegQuantitiesEvenSplit(notional, beta, s1_price, s2_price) ==
    [s1 |-> IF s1_price > 0 THEN notional \div (2 * s1_price) ELSE 0,
     s2 |-> IF s2_price > 0 THEN notional \div (2 * s2_price) ELSE 0]

(* lines 178-179: integer share quantities of the two legs *)
LegQuantities(notional, beta, s1_price, s2_price) ==
    [s1 |-> IF s1_price > 0
            THEN LegNotionals(notional, beta).s1 \div s1_price ELSE 0,
     s2 |-> IF s2_price > 0
            THEN LegNotionals(notional, beta).s2 \div s2_price ELSE 0]

(* lines 170-187 *)
_open_trade(sig, s1_price, s2_price, candle_idx, timestamp, portfolio, is_realistic) ==
    LET direction == IF sig.signal_type \in {"ENTER_LONG", "EXIT_LONG", "HOLD_LONG"}
                     THEN "LONG" ELSE "SHORT"
        notional == IF is_realistic THEN TRADE_NOTIONAL_PER_PAIR
                    ELSE FIXED_THEORETICAL_NOTIONAL
        qty == LegQuantities(notional, sig.hedge_ratio, s1_price, s2_price)
        trade_data ==
            [serial_number |-> portfolio.trade_id, pair |-> sig.pair,
             entry_timestamp |-> timestamp, entry_candle_index |-> candle_idx,
             z_score_entry |-> sig.z_score, half_life |-> sig.half_life,
             hedge_ratio |-> sig.hedge_ratio, direction |-> direction,
             s1_pos |-> IF direction = "LONG" THEN "LONG" ELSE "SHORT",
             s2_pos |-> IF direction = "LONG" THEN "SHORT" ELSE "LONG",
             s1_entry_price |-> s1_price, s2_entry_price |-> s2_price,
             s1_qty |-> qty.s1, s2_qty |-> qty.s2]
    IN IF qty.s1 = 0 \/ qty.s2 = 0 THEN portfolio
       ELSE [portfolio EXCEPT !.open_trades = DictSet(@, sig.pair, trade_data),
                              !.trade_id = @ + 1]

(* mutation of days_held: the whole days elapsed, without the floor of one *)
days_held_unfloored(entry_timestamp, exit_timestamp) ==
    Days(entry_timestamp, exit_timestamp)

(* line 202: max(1, (exit_timestamp - entry_timestamp).days) *)
days_held(entry_timestamp, exit_timestamp) ==
    IF Days(entry_timestamp, exit_timestamp) > 1
    THEN Days(entry_timestamp, exit_timestamp) ELSE 1

(* lines 201-204: the costs of a round trip, for a cost rate in basis points
   and an annual borrow rate in percent *)
trade_costs(turnover, short_leg_notional, held, bps, annual_percent) ==
    [transaction_costs |-> (turnover * bps) \div 10000,
     borrow_costs |-> (short_leg_notional * annual_percent * held) \div 36500]

(* lines 189-207: the closed trade record *)
ClosedTrade(trade_data, s1_price, s2_price, timestamp, sig) ==
    LET pnl_s1 == IF trade_data.s1_pos = "LONG"
                  THEN (s1_price - trade_data.s1_entry_price) * trade_data.s1_qty
                  ELSE (trade_data.s1_entry_price - s1_price) * trade_data.s1_qty
        pnl_s2 == IF trade_data.s2_pos = "LONG"
                  THEN (s2_price - trade_data.s2_entry_price) * trade_data.s2_qty
                  ELSE (trade_data.s2_entry_price - s2_price) * trade_data.s2_qty
        notional_s1_entry == trade_data.s1_entry_price * trade_data.s1_qty
        notional_s2_entry == trade_data.s2_entry_price * trade_data.s2_qty
        turnover == notional_s1_entry + s1_price * trade_data.s1_qty
                        + notional_s2_entry + s2_price * trade_data.s2_qty
        held == days_held(trade_data.entry_timestamp, timestamp)
        short_leg_notional == IF trade_data.s2_pos = "SHORT" THEN notional_s2_entry
                              ELSE notional_s1_entry
        costs == trade_costs(turnover, short_leg_notional, held,
                             TRANSACTION_COST_BPS, ANNUAL_BORROW_COST_PERCENT)
        transaction_costs == costs.transaction_costs
        borrow_costs == costs.borrow_costs
    IN [serial_number |-> trade_data.serial_number, pair |-> trade_data.pair,
        direction |-> trade_data.direction,
        entry_timestamp |-> trade_data.entry_timestamp,
        entry_candle_index |-> trade_data.entry_candle_index,
        s1_entry_price |-> trade_data.s1_entry_price,
        s2_entry_price |-> trade_data.s2_entry_price,
        s1_qty |-> trade_data.s1_qty, s2_qty |-> trade_data.s2_qty,
        exit_timestamp |-> timestamp, exit_reason |-> sig.reason,
        z_score_exit |-> sig.z_score,
        s1_exit_price |-> s1_price, s2_exit_price |-> s2_price,
        gross_pnl |-> pnl_s1 + pnl_s2,
        transaction_costs |-> transaction_costs, borrow_costs |-> borrow_costs,
        net_pnl |-> pnl_s1 + pnl_s2 - transaction_costs - borrow_costs,
        days_held |-> held]

(* mutation of _close_trade: the trade stays in open_trades *)
_close_trade_keeping_it_open(trade_data, s1_price, s2_price, timestamp, sig, portfolio) ==
    LET closed == ClosedTrade(trade_data, s1_price, s2_price, timestamp, sig)
        credited == IF "capital" \in DOMAIN portfolio
                    THEN [portfolio EXCEPT !.capital = @ + closed.net_pnl]
                    ELSE portfolio
    IN [credited EXCEPT !.closed_trades = Append(@, closed)]

(* mutation of _close_trade: the capital is not credited *)
_close_trade_without_credit(trade_data, s1_price, s2_price, timestamp, sig, portfolio) ==
    LET closed == ClosedTrade(trade_data, s1_price, s2_price, timestamp, sig)
    IN [portfolio EXCEPT !.closed_trades = Append(@, closed),
                         !.open_trades = DictDel(@, trade_data.pair)]

(* lines 189-209 *)
_close_trade(trade_data, s1_price, s2_price, timestamp, sig, portfolio) ==
    LET closed == ClosedTrade(trade_data, s1_price, s2_price, timestamp, sig)
        credited == IF "capital" \in DOMAIN portfolio
                    THEN [portfolio EXCEPT !.capital = @ + closed.net_pnl]
                    ELSE portfolio
    IN [credited EXCEPT !.closed_trades = Append(@, closed),
                        !.open_trades = DictDel(@, trade_data.pair)]

(* mutation of HasCapacity: one trade more than the cap is let in *)
HasCapacityInclusive(portfolio) ==
    Cardinality(DOMAIN portfolio.open_trades) <= MAX_CONCURRENT_PAIRS

(* line 161 *)
HasCapacity(portfolio) ==
    Cardinality(DOMAIN portfolio.open_trades) < MAX_CONCURRENT_PAIRS

OpenPairs(portfolio) == DOMAIN portfolio.open_trades

AdmittedPairs(cointegrated_pairs) ==
    {pair_info.pair : pair_info \in SeqToSet(cointegrated_pairs)}

(* lines 127-129 *)
pairs_in_play(realistic, theoretical, cointegrated_pairs) ==
    OpenPairs(realistic) \cup OpenPairs(theoretical)
        \cup AdmittedPairs(cointegrated_pairs)

(* mutation of RecalcBar: the pairs are searched again on every bar *)
RecalcBarAlways(bar) ==
    bar >= FORMATION_PERIOD_CANDLES

(* line 121: the bars on which the admitted pairs are recomputed *)
RecalcBar(bar) ==
    (bar - FORMATION_PERIOD_CANDLES) % PAIR_RECALC_PERIOD_CANDLES = 0

(* line 122: df.loc[:current_timestamp].tail(FORMATION_PERIOD_CANDLES), as
   the first and the last row it holds *)
formation_slice(s, bar) ==
    LET rows == RowsUpTo(s, bar)
        kept == Min(rows, FORMATION_PERIOD_CANDLES)
    IN [first |-> rows - kept, last |-> rows - 1]

(* stat_arb.py line 65: the slices with at least num_candles rows *)
SlicesLongEnough(syms, bar) ==
    {s \in SeqToSet(syms) :
        formation_slice(s, bar).last - formation_slice(s, bar).first + 1
            >= FORMATION_PERIOD_CANDLES}

(* lines 118-129: the head of the loop over the bars *)
NextBar ==
    /\ todo = {}
    /\ i + 1 < length - 1
    /\ \E stats \in FormationStats(symbols) :
         LET bar == i + 1
             recalc == RecalcBar(bar)
             pairs == IF recalc
                      THEN find_cointegrated_pairs(SlicesLongEnough(symbols, bar),
                                                   stats, symbols)
                      ELSE strategy_cache.cointegrated_pairs
         IN /\ i' = bar
            /\ recalculated' = IF recalc THEN pairs ELSE recalculated
            /\ strategy_cache' = [strategy_cache EXCEPT !.first_run = FALSE,
                                                        !.cointegrated_pairs = pairs]
            /\ todo' = IF pairs = <<>> THEN {}
                       ELSE pairs_in_play(realistic_portfolio, theoretical_portfolio,
                                          pairs)
            /\ engine_calls' = {}
            /\ last' = NoVisit
    /\ UNCHANGED <<symbols, engine_only_vars, length, open_price,
                   realistic_portfolio, theoretical_portfolio, setup>>
    /\ UNCHANGED <<now, last_recalc_time, actionable_signals, cycle>>

(* mutation of position_states: one position record serves both
   portfolios, the one of the realistic portfolio *)
position_states_shared(realistic, theoretical, pair_tuple, bar) ==
    [real |-> open_pos_info(realistic, pair_tuple, bar),
     theo |-> open_pos_info(realistic, pair_tuple, bar)]

(* lines 141-148: each portfolio's own position in the pair, as handed to
   the engine for that portfolio's signal *)
position_states(realistic, theoretical, pair_tuple, bar) ==
    [real |-> open_pos_info(realistic, pair_tuple, bar),
     theo |-> open_pos_info(theoretical, pair_tuple, bar)]

(* mutation of ExecutionBar: a signal is executed on the bar it is computed on *)
ExecutionBarOfTheSignal(bar) ==
    bar

(* lines 151-153: the row of the execution, master_close_df.index[i + 1] *)
ExecutionBar(bar) ==
    bar + 1

(* lines 131-166: the body of the loop over pairs_in_play for one pair, as
   a function of the portfolios it finds: the portfolios it leaves, whether
   the engine was invoked, and what the visit saw *)
PairBody(realistic, theoretical, cointegrated_pairs, pair_tuple, ob, bar) ==
    LET known == {pair_info \in SeqToSet(cointegrated_pairs) :
                     pair_info.pair = pair_tuple}
        s1 == pair_tuple[1]
        s2 == pair_tuple[2]
    IN IF known = {} \/ RowsUpTo(s1, bar) < ROLLING_WINDOW + 5
       THEN [realistic |-> realistic, theoretical |-> theoretical,
             called |-> FALSE, visit |-> NoVisit]
       ELSE LET pair_info == CHOOSE pair_info \in known : TRUE
                real_open == pair_tuple \in OpenPairs(realistic)
                theo_open == pair_tuple \in OpenPairs(theoretical)
                states == position_states(realistic, theoretical, pair_tuple, bar)
                signal_real == signal(ob, pair_info, states.real)
                signal_theo == signal(ob, pair_info, states.theo)
                next_timestamp == TimestampOf(ExecutionBar(bar))
                exec_price_s1 == OpenAt(s1, ExecutionBar(bar))
                exec_price_s2 == OpenAt(s2, ExecutionBar(bar))
                real_closed ==
                    IF IsExit(signal_real) /\ real_open
                    THEN _close_trade(realistic.open_trades[pair_tuple],
                                      exec_price_s1, exec_price_s2, next_timestamp,
                                      signal_real, realistic)
                    ELSE realistic
                theo_closed ==
                    IF IsExit(signal_theo) /\ theo_open
                    THEN _close_trade(theoretical.open_trades[pair_tuple],
                                      exec_price_s1, exec_price_s2, next_timestamp,
                                      signal_theo, theoretical)
                    ELSE theoretical
            IN [realistic |->
                    IF IsEnter(signal_real) /\ ~real_open
                    THEN IF HasCapacity(real_closed)
                         THEN _open_trade(signal_real, exec_price_s1, exec_price_s2,
                                          bar, next_timestamp, real_closed, TRUE)
                         ELSE [real_closed EXCEPT !.signals_skipped = @ + 1]
                    ELSE real_closed,
                theoretical |->
                    IF IsEnter(signal_theo) /\ ~theo_open
                    THEN _open_trade(signal_theo, exec_price_s1, exec_price_s2,
                                     bar, next_timestamp, theo_closed, FALSE)
                    ELSE theo_closed,
                called |-> TRUE,
                visit |-> [pair |-> pair_tuple, pair_info |-> pair_info,
                           signal_real |-> signal_real,
                           signal_theo |-> signal_theo, real_open |-> real_open,
                           theo_open |-> theo_open, s1_price |-> exec_price_s1,
                           s2_price |-> exec_price_s2]]

(* line 130: one iteration of the loop over pairs_in_play; the set is
   iterated in an order the program does not fix *)
VisitPair(pair_tuple, ob) ==
    LET out == PairBody(realistic_portfolio, theoretical_portfolio,
                        strategy_cache.cointegrated_pairs, pair_tuple, ob, i)
    IN /\ pair_tuple \in todo
       /\ todo' = todo \ {pair_tuple}
       /\ realistic_portfolio' = out.realistic
       /\ theoretical_portfolio' = out.theoretical
       /\ engine_calls' = IF out.called THEN engine_calls \cup {pair_tuple}
                          ELSE engine_calls
       /\ last' = IF out.called THEN out.visit ELSE last
       /\ UNCHANGED <<symbols, strategy_cache, engine_only_vars, i, length,
                      open_price, setup>>
       /\ UNCHANGED live_vars

(* lines 97-116: the history is loaded and the portfolios are created *)
BacktestInit ==
    /\ symbols \in {<<"A", "B">>, <<"A", "B", "C">>}
    /\ length = BacktestLength(symbols)
    /\ open_price \in PricePaths(symbols)
    /\ i = FORMATION_PERIOD_CANDLES - 1
    /\ realistic_portfolio = NewRealisticPortfolio
    /\ theoretical_portfolio = NewTheoreticalPortfolio
    /\ strategy_cache = [first_run |-> TRUE, cointegrated_pairs |-> <<>>,
                         open_positions |-> EmptyDict]
    /\ todo = {}
    /\ engine_calls = {}
    /\ last = NoVisit
    /\ candles = 0
    /\ all_data_dict = [present |-> {}, len |-> 0, stat |-> EmptyDict]
    /\ formation = EmptyDict
    /\ signals = <<>>
    /\ evaluated = EmptyDict
    /\ entered_at = EmptyDict
    /\ setup = NoSetup
    /\ LiveIdle

VisitSomePair ==
    \E pair_tuple \in todo, ob \in BarObservations(symbols) :
        VisitPair(pair_tuple, ob)

BacktestNext == NextBar \/ VisitSomePair

SpecBacktest == BacktestInit /\ [][BacktestNext]_vars

---------------------------------------------------------------------------
(* Vocabulary of the properties of Part II *)

Portfolios == {realistic_portfolio, theoretical_portfolio}

ClosedOf(portfolio) == SeqToSet(portfolio.closed_trades)

RECURSIVE SumNetPnl(_, _)
SumNetPnl(closed_trades, k) ==
    IF k > Len(closed_trades) THEN 0
    ELSE closed_trades[k].net_pnl + SumNetPnl(closed_trades, k + 1)

(* the replay is between two bars, bar i being done *)
BarDone == todo = {} /\ i >= FORMATION_PERIOD_CANDLES

---------------------------------------------------------------------------
(* C7: in each portfolio a pair is in exactly one of FLAT, LONG or SHORT at
   every moment: at most one open trade exists per pair, a trade is opened
   for a pair only when the portfolio holds no open trade for it (no open
   trade is ever replaced: every serial number handed out belongs to exactly
   one trade, open or closed), and closing a trade returns its pair to
   FLAT. *)
C7_OnePositionStatePerPair ==
    /\ \A portfolio \in Portfolios :
        /\ \A pair \in OpenPairs(portfolio) :
              /\ portfolio.open_trades[pair].pair = pair
              /\ portfolio.open_trades[pair].direction \in {"LONG", "SHORT"}
        /\ portfolio.trade_id - 1 =
              Cardinality(OpenPairs(portfolio)) + Len(portfolio.closed_trades)
        /\ \A pair \in OpenPairs(portfolio) : \A c \in ClosedOf(portfolio) :
              c.serial_number # portfolio.open_trades[pair].serial_number
        /\ \A k, m \in 1..Len(portfolio.closed_trades) :
              k # m => portfolio.closed_trades[k].serial_number
                          # portfolio.closed_trades[m].serial_number
    /\ (IsExit(last.signal_real) /\ last.real_open)
          => last.pair \notin OpenPairs(realistic_portfolio)
    /\ (IsExit(last.signal_theo) /\ last.theo_open)
          => last.pair \notin OpenPairs(theoretical_portfolio)

(* a pair has been opened, closed (back to FLAT) and opened again in the
   realistic portfolio *)
C7_Witness ==
    \E pair \in OpenPairs(realistic_portfolio) :
        \E c \in ClosedOf(realistic_portfolio) :
            /\ c.pair = pair
            /\ c.serial_number < realistic_portfolio.open_trades[pair].serial_number

---------------------------------------------------------------------------
(* C8: the realistic portfolio satisfies capital = INITIAL_CAPITAL + the sum
   of net_pnl over its closed trades, after every bar and inside it; hence
   the capital changes only when a realistic trade is closed, and opening a
   trade or closing a theoretical trade leaves it unchanged. *)
C8_CapitalIsInitialPlusNetPnl ==
    /\ []( realistic_portfolio.capital =
              INITIAL_CAPITAL + SumNetPnl(realistic_portfolio.closed_trades, 1) )
    /\ [][ realistic_portfolio'.capital # realistic_portfolio.capital
              => /\ Len(realistic_portfolio'.closed_trades)
                       = Len(realistic_portfolio.closed_trades) + 1
                 /\ IsExit(last'.signal_real) /\ last'.real_open ]_vars
    /\ [][ (/\ Len(realistic_portfolio'.closed_trades)
                  = Len(realistic_portfolio.closed_trades)
            /\ \/ OpenPairs(realistic_portfolio') # OpenPairs(realistic_portfolio)
               \/ Len(theoretical_portfolio'.closed_trades)
                     # Len(theoretical_portfolio.closed_trades))
              => realistic_portfolio'.capital = realistic_portfolio.capital ]_vars

(* a bar is done with the capital moved by a realistic trade closed at a
   loss or a gain, a theoretical trade closed as well *)
C8_Witness ==
    /\ BarDone
    /\ realistic_portfolio.capital # INITIAL_CAPITAL
    /\ \E c \in ClosedOf(realistic_portfolio) : c.net_pnl # 0
    /\ theoretical_portfolio.closed_trades # <<>>
    /\ OpenPairs(realistic_portfolio) # {}

---------------------------------------------------------------------------
(* C9: when a bar is done the engine has been evaluated for every pair of
   pairs_in_play = admitted pairs with the pairs holding an open position in
   either portfolio: a pair that holds an open position is evaluated on
   every bar, also after a recalculation removed it from the admitted set or
   left the admitted set empty. *)
C9_EveryPairInPlayEvaluated ==
    BarDone =>
        \A pair \in pairs_in_play(realistic_portfolio, theoretical_portfolio,
                                  strategy_cache.cointegrated_pairs) :
            pair \in engine_calls

---------------------------------------------------------------------------
(* C10: the number of open trades of the realistic portfolio never exceeds
   MAX_CONCURRENT_PAIRS, while the theoretical portfolio is uncapped: every
   theoretical ENTER signal for a FLAT pair opens a trade on that bar unless
   a leg quantity is zero. *)
C10_RealisticCappedTheoreticalNot ==
    /\ Cardinality(OpenPairs(realistic_portfolio)) <= MAX_CONCURRENT_PAIRS
    /\ (IsEnter(last.signal_theo) /\ ~last.theo_open)
          => LET qty == LegQuantities(FIXED_THEORETICAL_NOTIONAL,
                                      last.signal_theo.hedge_ratio,
                                      last.s1_price, last.s2_price)
             IN IF qty.s1 = 0 \/ qty.s2 = 0
                THEN last.pair \notin OpenPairs(theoretical_portfolio)
                ELSE /\ last.pair \in OpenPairs(theoretical_portfolio)
                     /\ theoretical_portfolio.open_trades[last.pair].entry_candle_index = i

(* the realistic portfolio is full and has skipped a signal that the
   theoretical portfolio took *)
C10_Witness ==
    /\ Cardinality(OpenPairs(realistic_portfolio)) = MAX_CONCURRENT_PAIRS
    /\ realistic_portfolio.signals_skipped > 0
    /\ Cardinality(OpenPairs(theoretical_portfolio)) > MAX_CONCURRENT_PAIRS
    /\ IsEnter(last.signal_theo) /\ ~last.theo_open

---------------------------------------------------------------------------
(* C11: the log of realistic trades (pair, direction, entry and exit bar,
   serial_number, exit_reason) does not depend on the order in which the
   pairs in play of a bar are iterated: from any state of the replay, with
   the same observation for every pair still to visit, every iteration
   order of these pairs leaves the same log. *)
Orders(S) ==
    {order \in [1..Cardinality(S) -> S] :
        \A k, m \in 1..Cardinality(S) : k # m => order[k] # order[m]}

RECURSIVE RunBar(_, _, _, _, _)
RunBar(realistic, theoretical, order, k, obs) ==
    IF k > Len(order) THEN [realistic |-> realistic, theoretical |-> theoretical]
    ELSE LET out == PairBody(realistic, theoretical,
                             strategy_cache.cointegrated_pairs, order[k],
                             obs[order[k]], i)
         IN RunBar(out.realistic, out.theoretical, order, k + 1, obs)

LoggedTrade(t) ==
    [pair |-> t.pair, direction |-> t.direction, serial_number |-> t.serial_number,
     entry_candle_index |-> t.entry_candle_index,
     entry_timestamp |-> t.entry_timestamp,
     exit_timestamp |-> IF "exit_timestamp" \in DOMAIN t THEN t.exit_timestamp ELSE -1,
     exit_reason |-> IF "exit_reason" \in DOMAIN t THEN t.exit_reason ELSE ""]

TradeLog(portfolio) ==
    [closed |-> [k \in 1..Len(portfolio.closed_trades) |->
                    LoggedTrade(portfolio.closed_trades[k])],
     open |-> {LoggedTrade(portfolio.open_trades[pair]) : pair \in OpenPairs(portfolio)}]

C11_TradeLogIndependentOfOrder ==
    \A obs \in [todo -> BarObservations(symbols)] :
        \A first, second \in Orders(todo) :
            TradeLog(RunBar(realistic_portfolio, theoretical_portfolio,
                            first, 1, obs).realistic)
              = TradeLog(RunBar(realistic_portfolio, theoretical_portfolio,
                                second, 1, obs).realistic)

---------------------------------------------------------------------------
(***************************************************************************)
(* Part III.  main.py: the live driver run_stat_arb_strategy               *)
(* (lines 150-291).  One action is one pass of the while loop.  The driver *)
(* invokes the engine per pair with the keyword arguments pair_data_slice, *)
(* pair_info and open_position_state (lines 228-232), the signature of the *)
(* operator signal above.                                                  *)
(***************************************************************************)

(* lines 199-204: the symbols fetch_data returned a frame for *)
FetchedSets(syms) == {SeqToSet(syms), SeqToSet(syms) \ {syms[Len(syms)]}}

(* mutation of RecalcDue: an interval that has exactly elapsed counts *)
RecalcDueInclusive(clock, last_recalc) ==
    last_recalc = -1 \/ clock - last_recalc >= PAIR_RECALC_INTERVAL

(* lines 211-212: "last_recalc_time" not in strategy_cache or
   (datetime.now() - last_recalc_time) > PAIR_RECALC_INTERVAL *)
RecalcDue(clock, last_recalc) ==
    last_recalc = -1 \/ clock - last_recalc > PAIR_RECALC_INTERVAL

(* mutation of live_open_position: the driver remembers the pairs it has
   seen an ENTER signal for *)
live_open_position_remembered(pair_tuple, entered_before) ==
    IF pair_tuple \in entered_before
    THEN [direction |-> "SHORT", bars_held |-> 1]
    ELSE [direction |-> "FLAT", bars_held |-> 0]

(* line 231: open_position_state=None *)
live_open_position(pair_tuple, entered_before) ==
    [direction |-> "FLAT", bars_held |-> 0]

(* mutation of pairs_to_trade: the list is read before the refresh *)
pairs_to_trade_read_early(before, after) ==
    before

(* line 218: strategy_cache.get("cointegrated_pairs"), read after the
   refresh of lines 213-216 *)
pairs_to_trade(before, after) ==
    after

(* lines 224-234: the loop over pairs_to_trade from its k-th element; a
   symbol of a pair that was not fetched raises KeyError at line 229, which
   leaves the loop and the cycle (line 286) *)
RECURSIVE LiveLoop(_, _, _, _, _)
LiveLoop(pairs, k, fetched, obs, entered_before) ==
    IF k > Len(pairs)
    THEN [calls |-> {}, actionable |-> <<>>, raised |-> FALSE]
    ELSE LET pair_info == pairs[k]
             s1 == pair_info.pair[1]
             s2 == pair_info.pair[2]
         IN IF s1 \notin fetched \/ s2 \notin fetched
            THEN [calls |-> {}, actionable |-> <<>>, raised |-> TRUE]
            ELSE LET open_position ==
                         live_open_position(pair_info.pair, entered_before)
                     sig == signal(obs[pair_info.pair], pair_info, open_position)
                     rest == LiveLoop(pairs, k + 1, fetched, obs, entered_before)
                 IN [calls |-> {[pair_info |-> pair_info,
                                 open_position |-> open_position,
                                 signal |-> sig]} \cup rest.calls,
                     actionable |-> (IF IsEnter(sig) THEN <<sig>> ELSE <<>>)
                                        \o rest.actionable,
                     raised |-> rest.raised]

(* mutation of loop_continues: an interrupt is handled like any other
   exception and the loop goes on *)
loop_continues_always(outcome) ==
    TRUE

(* lines 283-288: break on KeyboardInterrupt; any other exception is logged
   and the loop goes on *)
loop_continues(outcome) ==
    outcome # "interrupted"

(* lines 197-288: one pass of the while loop, sleep included.  fetched are
   the symbols with data, stats what the pair search sees if it runs, obs
   what the rolling fits show, delay the time the pair search takes, and
   elapsed the time to the head of the next pass. *)
LiveCycle ==
    /\ now >= 0
    /\ now < LiveTicks
    /\ loop_continues(cycle.outcome)
    /\ \E fetched \in FetchedSets(symbols), elapsed \in 1..MaxElapsed :
         LET enough == Cardinality(fetched) >= 2
             due == enough /\ RecalcDue(now, last_recalc_time)
         IN \E stats \in IF due THEN FormationStats(symbols) ELSE {EmptyDict},
               delay \in IF due THEN {0, 1} ELSE {0} :
              LET found == find_cointegrated_pairs(fetched, stats, symbols)
                  pairs == IF due
                           THEN pairs_to_trade(strategy_cache.cointegrated_pairs, found)
                           ELSE strategy_cache.cointegrated_pairs
              IN \E obs \in [IF enough THEN AdmittedPairs(pairs) ELSE {}
                                -> BarObservations(symbols)] :
                   LET loop == LiveLoop(pairs, 1, fetched, obs, cycle.entered_before)
                       outcome == IF ~enough THEN "few symbols"
                                  ELSE IF pairs = <<>> THEN "no pairs"
                                  ELSE IF loop.raised THEN "exception"
                                  ELSE "complete"
                       calls == IF enough THEN loop.calls ELSE {}
                   IN /\ strategy_cache' =
                            IF due
                            THEN [strategy_cache EXCEPT !.first_run = FALSE,
                                                        !.cointegrated_pairs = found]
                            ELSE strategy_cache
                      /\ recalculated' = IF due THEN found ELSE recalculated
                      /\ last_recalc_time' = IF due THEN now + delay
                                             ELSE last_recalc_time
                      /\ actionable_signals' = IF outcome = "complete"
                                               THEN loop.actionable ELSE <<>>
                      /\ cycle' = [at |-> now, fetched |-> fetched,
                                   recalc_before |-> last_recalc_time,
                                   refreshed |-> due, outcome |-> outcome,
                                   calls |-> calls,
                                   entered_before |->
                                       cycle.entered_before
                                           \cup {c.pair_info.pair : c \in
                                                   {c \in cycle.calls : IsEnter(c.signal)}},
                                   stored |-> IF due THEN now + delay
                                              ELSE cycle.stored]
                      /\ now' = now + (IF due THEN delay ELSE 0) + elapsed
    /\ UNCHANGED <<symbols, engine_only_vars, backtest_vars>>

(* lines 283-285: KeyboardInterrupt reaches the try block of the pass in
   progress and the loop is left.  The interrupt can arrive at any
   statement: before the finder's result is stored (fetch, pair search,
   sleep), between the store of the admitted set (line 215) and the store
   of last_recalc_time (line 216), or after both (the loop over the
   pairs).  cycle.stored is history: the instant of the latest store of an
   admitted set. *)
KeyboardInterrupt ==
    /\ now >= 0
    /\ loop_continues(cycle.outcome)
    /\ \E fetched \in FetchedSets(symbols),
          point \in {"before the stores", "between the stores", "after the stores"} :
         LET due == Cardinality(fetched) >= 2 /\ RecalcDue(now, last_recalc_time)
             stores == due /\ point # "before the stores"
         IN \E stats \in IF stores THEN FormationStats(symbols) ELSE {EmptyDict} :
              LET found == find_cointegrated_pairs(fetched, stats, symbols)
              IN /\ strategy_cache' =
                       IF stores
                       THEN [strategy_cache EXCEPT !.first_run = FALSE,
                                                   !.cointegrated_pairs = found]
                       ELSE strategy_cache
                 /\ recalculated' = IF stores THEN found ELSE recalculated
                 /\ last_recalc_time' =
                       IF stores /\ point = "after the stores" THEN now
                       ELSE last_recalc_time
                 /\ cycle' = [cycle EXCEPT !.outcome = "interrupted",
                                           !.stored = IF stores THEN now ELSE @]
    /\ UNCHANGED <<symbols, engine_only_vars, backtest_vars, actionable_signals,
                   now>>

(* lines 150-196: the driver starts with the cache of a fresh process *)
LiveInit ==
    /\ symbols \in {<<"A", "B">>, <<"A", "B", "C">>}
    /\ strategy_cache = [first_run |-> TRUE, cointegrated_pairs |-> <<>>,
                         open_positions |-> EmptyDict]
    /\ now = 0
    /\ last_recalc_time = -1
    /\ actionable_signals = <<>>
    /\ cycle = NoCycle
    /\ recalculated = <<>>
    /\ candles = 0
    /\ all_data_dict = [present |-> {}, len |-> 0, stat |-> EmptyDict]
    /\ formation = EmptyDict
    /\ signals = <<>>
    /\ evaluated = EmptyDict
    /\ entered_at = EmptyDict
    /\ BacktestIdle

LiveNext == LiveCycle \/ KeyboardInterrupt

SpecLive == LiveInit /\ [][LiveNext]_vars

---------------------------------------------------------------------------
(* C12: the live driver holds no positions: it invokes the engine with no
   open position for every admitted pair of a cycle it completes, it keeps
   no position state for any pair (the cache's open_positions stays empty),
   and every signal it obtains is an ENTER or none, never a HOLD or an
   EXIT; the signals it acts upon are ENTER signals. *)
C12_LiveDriverHoldsNoPositions ==
    /\ \A c \in cycle.calls :
          /\ c.open_position.direction = "FLAT"
          /\ c.signal.signal_type \in {"NONE", "ENTER_LONG", "ENTER_SHORT"}
    /\ cycle.outcome = "complete"
          => {c.pair_info : c \in cycle.calls}
                = SeqToSet(strategy_cache.cointegrated_pairs)
    /\ strategy_cache.open_positions = EmptyDict
    /\ \A k \in 1..Len(actionable_signals) : IsEnter(actionable_signals[k])

(* a pair gets an ENTER signal in a cycle after an earlier cycle had
   already obtained an ENTER signal for it *)
C12_Witness ==
    \E c \in cycle.calls :
        /\ IsEnter(c.signal)
        /\ c.pair_info.pair \in cycle.entered_before

---------------------------------------------------------------------------
(* C13: every pair the pair finder returns has passed all the gates on the
   formation window: correlation above CORRELATION_THRESHOLD, the ADF
   p-value of each leg at or above ADF_P_VALUE_THRESHOLD, the ADF p-value of
   the spread below it, and MIN_HALF_LIFE <= half_life <= MAX_HALF_LIFE (the
   half-life it is returned with); a pair that fails a gate is not
   returned. *)
C13_AdmittedPairsPassedAllGates ==
    \A pair_info \in SeqToSet(strategy_cache.cointegrated_pairs) :
        /\ pair_info.pair \in DOMAIN formation
        /\ LET st == formation[pair_info.pair]
           IN /\ st.corr > CORRELATION_THRESHOLD
              /\ st.adf_s1 >= ADF_P_VALUE_THRESHOLD
              /\ st.adf_s2 >= ADF_P_VALUE_THRESHOLD
              /\ st.adf_spread < ADF_P_VALUE_THRESHOLD
              /\ MIN_HALF_LIFE * 10 <= st.half_life
              /\ st.half_life <= MAX_HALF_LIFE * 10
              /\ pair_info.half_life = st.half_life

(* a pair search has returned a pair and dropped another candidate whose
   correlation is at the threshold *)
C13_Witness ==
    /\ strategy_cache.cointegrated_pairs # <<>>
    /\ \E pair \in DOMAIN formation :
          /\ formation[pair].corr = CORRELATION_THRESHOLD
          /\ \A pair_info \in SeqToSet(strategy_cache.cointegrated_pairs) :
                pair_info.pair # pair

---------------------------------------------------------------------------
(* C14: in the pair finder and in the signal engine a failure while one
   pair is processed (an exception of a fit or a test, missing data)
   discards that pair only.  Engine: every other pair of the cycle is still
   evaluated and its signal is in the returned list, the failing pair gets
   no signal and keeps its position state.  Finder: every other candidate
   that passes the gates is still admitted. *)
C14_EngineKeepsTheOtherPairs ==
    /\ \A pair \in Reached :
          /\ pair \in DOMAIN evaluated
                => \E s \in SignalsOf(pair) :
                      s.signal_type \in {"EXIT_" \o evaluated[pair].direction,
                                         "HOLD_" \o evaluated[pair].direction}
          /\ (pair \notin DOMAIN evaluated /\ ZOf(pair) > Z_SCORE_ENTRY)
                => EmittedWith(pair, "ENTER_SHORT", "Z-Score > Z_ENTRY")
          /\ (pair \notin DOMAIN evaluated /\ ZOf(pair) < -Z_SCORE_ENTRY)
                => EmittedWith(pair, "ENTER_LONG", "Z-Score < -Z_ENTRY")
    /\ \A pair \in PairsToCheck \ Reached :
          /\ SignalsOf(pair) = {}
          /\ pair \in DOMAIN evaluated <=> pair \in DOMAIN strategy_cache.open_positions
          /\ pair \in DOMAIN evaluated
                => strategy_cache.open_positions[pair] = evaluated[pair]

C14_FinderKeepsTheOtherPairs ==
    strategy_cache.first_run
        => \A pair \in DOMAIN formation' :
              LET st == formation'[pair]
              IN (/\ pair[1] \in LongEnough(all_data_dict')
                  /\ pair[2] \in LongEnough(all_data_dict')
                  /\ ~st.raises /\ st.aligned
                  /\ st.corr > CORRELATION_THRESHOLD
                  /\ st.adf_s1 >= ADF_P_VALUE_THRESHOLD
                  /\ st.adf_s2 >= ADF_P_VALUE_THRESHOLD
                  /\ st.adf_spread < ADF_P_VALUE_THRESHOLD
                  /\ MIN_HALF_LIFE * 10 <= st.half_life
                  /\ st.half_life <= MAX_HALF_LIFE * 10)
                    => \E pair_info \in SeqToSet(strategy_cache'.cointegrated_pairs) :
                          /\ pair_info.pair = pair
                          /\ pair_info.half_life = st.half_life

C14_FailureDiscardsOnlyThatPair ==
    /\ []C14_EngineKeepsTheOtherPairs
    /\ [][C14_FinderKeepsTheOtherPairs]_vars

(* the pair search admitted pairs although a candidate raised, and in the
   last cycle the fit of one admitted pair raised while another admitted
   pair got its signal *)
C14_Witness ==
    /\ \E pair \in DOMAIN formation : formation[pair].raises
    /\ \E failed \in PairsToCheck, pair \in Reached :
          /\ failed[1] \in all_data_dict.present
          /\ failed[2] \in all_data_dict.present
          /\ all_data_dict.stat[failed].kind = "error"
          /\ SignalsOf(pair) # {}
          /\ \E k, m \in 1..Len(strategy_cache.cointegrated_pairs) :
                /\ k < m
                /\ strategy_cache.cointegrated_pairs[k].pair = failed
                /\ strategy_cache.cointegrated_pairs[m].pair = pair

---------------------------------------------------------------------------
(* The two drivers of the engine side by side: a run is either a replay or
   a live session *)
DriversInit == BacktestInit \/ LiveInit

DriversNext == BacktestNext \/ LiveNext

SpecDrivers == DriversInit /\ [][DriversNext]_vars

(* the live loop has not been left: the driver can still read the cache *)
loop_runs == cycle.outcome # "interrupted"

(* C15: the admitted set is replaced as a whole: at every engine invocation
   of either driver the pair_info handed over belongs to the set returned
   by the most recent completed recalculation, never to a superseded one;
   the cache holds exactly that set, and in the live driver the
   recalculation clock is set exactly when a set has been stored. *)
C15_PairInfoFromLatestRecalculation ==
    /\ loop_runs
          => \A c \in cycle.calls : c.pair_info \in SeqToSet(recalculated)
    /\ last.pair # <<>> => last.pair_info \in SeqToSet(recalculated)
    /\ strategy_cache.cointegrated_pairs = recalculated
    /\ (now >= 0 /\ loop_runs)
          => (last_recalc_time = -1 <=> strategy_cache.first_run)

(* live: a recalculation has dropped a pair that got an ENTER signal under
   an earlier one, and the engine has been invoked for the new set *)
C15_Witness ==
    /\ cycle.refreshed
    /\ cycle.calls # {}
    /\ \E pair \in cycle.entered_before :
          \A pair_info \in SeqToSet(recalculated) : pair_info.pair # pair

(* replay: the engine has been invoked for a pair admitted by a
   recalculation later than the first *)
C15_WitnessReplay ==
    /\ last.pair # <<>>
    /\ i >= FORMATION_PERIOD_CANDLES + PAIR_RECALC_PERIOD_CANDLES
    /\ last.pair_info \in SeqToSet(recalculated)

---------------------------------------------------------------------------
(* C16 as stated: a live cycle refreshes the cache if and only if it is the
   first one or now - last_recalc_time >= PAIR_RECALC_INTERVAL, so that a
   cycle at which the interval has exactly elapsed refreshes.  Restricted
   here to the cycles that fetched at least two symbols, in a loop that no
   interrupt has ended. *)
C16_RefreshIffIntervalReached ==
    (cycle.at >= 0 /\ loop_runs /\ Cardinality(cycle.fetched) >= 2)
        => (cycle.refreshed
              <=> \/ cycle.recalc_before = -1
                  \/ cycle.at - cycle.recalc_before >= PAIR_RECALC_INTERVAL)

(* C16, amended: a live cycle refreshes the cache (the pair finder is
   invoked and last_recalc_time is set to the clock read after it returned)
   if and only if it fetched at least two symbols and either no refresh has
   been made yet or now - last_recalc_time > PAIR_RECALC_INTERVAL; a cycle
   at which the interval has exactly elapsed does not refresh; a cycle that
   does not refresh leaves last_recalc_time alone; the engine is not invoked
   before the first refresh.  The cycles are those of a loop that no
   interrupt has ended. *)
C16_RefreshIffIntervalExceeded ==
    (cycle.at >= 0 /\ loop_runs)
        => /\ cycle.refreshed
                <=> /\ Cardinality(cycle.fetched) >= 2
                    /\ \/ cycle.recalc_before = -1
                       \/ cycle.at - cycle.recalc_before > PAIR_RECALC_INTERVAL
           /\ cycle.refreshed
                => /\ cycle.at <= last_recalc_time
                   /\ last_recalc_time < now
                   /\ ~strategy_cache.first_run
           /\ ~cycle.refreshed => last_recalc_time = cycle.recalc_before
           /\ (cycle.calls # {} \/ actionable_signals # <<>>)
                => last_recalc_time # -1

(* a cycle with all symbols fetched found the interval exactly elapsed and
   did not refresh *)
C16_Witness ==
    /\ cycle.at >= 0
    /\ loop_runs
    /\ Cardinality(cycle.fetched) >= 2
    /\ cycle.recalc_before # -1
    /\ cycle.at - cycle.recalc_before = PAIR_RECALC_INTERVAL
    /\ ~cycle.refreshed

---------------------------------------------------------------------------
(* C17: a trade opened or closed because of a signal computed at bar i is
   priced at the open of bar i + 1 of each leg and stamped with the
   timestamp of bar i + 1, a trade opened at bar i records
   entry_candle_index = i, and no signal is computed on the last bar, so
   that bar i + 1 exists whenever the engine is invoked. *)
C17_EnteredAtNextOpen(t) ==
    /\ t.entry_candle_index >= FORMATION_PERIOD_CANDLES
    /\ t.entry_candle_index + 1 <= length - 1
    /\ t.entry_timestamp = TimestampOf(t.entry_candle_index + 1)
    /\ t.s1_entry_price = OpenAt(t.pair[1], t.entry_candle_index + 1)
    /\ t.s2_entry_price = OpenAt(t.pair[2], t.entry_candle_index + 1)

C17_ExitedAtNextOpen(c, bar) ==
    /\ bar + 1 <= length - 1
    /\ c.exit_timestamp = TimestampOf(bar + 1)
    /\ c.s1_exit_price = OpenAt(c.pair[1], bar + 1)
    /\ c.s2_exit_price = OpenAt(c.pair[2], bar + 1)

C17_ExecutedAtNextBarOpen ==
    /\ \A portfolio \in Portfolios :
          /\ \A pair \in OpenPairs(portfolio) :
                C17_EnteredAtNextOpen(portfolio.open_trades[pair])
          /\ \A c \in ClosedOf(portfolio) :
                /\ C17_EnteredAtNextOpen(c)
                /\ \E bar \in (c.entry_candle_index + 1)..i :
                      C17_ExitedAtNextOpen(c, bar)
    /\ last.pair # <<>>
          => /\ i + 1 <= length - 1
             /\ last.s1_price = OpenAt(last.pair[1], i + 1)
             /\ last.s2_price = OpenAt(last.pair[2], i + 1)
    /\ (IsExit(last.signal_real) /\ last.real_open)
          => C17_ExitedAtNextOpen(
                 realistic_portfolio.closed_trades[Len(realistic_portfolio.closed_trades)],
                 i)
    /\ (IsExit(last.signal_theo) /\ last.theo_open)
          => C17_ExitedAtNextOpen(
                 theoretical_portfolio.closed_trades[Len(theoretical_portfolio.closed_trades)],
                 i)
    /\ (IsEnter(last.signal_real) /\ ~last.real_open
            /\ last.pair \in OpenPairs(realistic_portfolio))
          => realistic_portfolio.open_trades[last.pair].entry_candle_index = i
    /\ (IsEnter(last.signal_theo) /\ ~last.theo_open
            /\ last.pair \in OpenPairs(theoretical_portfolio))
          => theoretical_portfolio.open_trades[last.pair].entry_candle_index = i

(* the last bar the loop visits is reached and a trade entered earlier at
   changing prices is closed on the signal of that bar, at the open of the
   last row of the history *)
C17_Witness ==
    /\ i = length - 2
    /\ IsExit(last.signal_real) /\ last.real_open
    /\ \E c \in ClosedOf(realistic_portfolio) :
          /\ c.exit_timestamp = TimestampOf(length - 1)
          /\ c.s1_exit_price # c.s1_entry_price

---------------------------------------------------------------------------
(* C18: a trade of notional K and slope beta splits K into
   notional_s1 = K / (1 + |beta|) and notional_s2 = K |beta| / (1 + |beta|),
   which sum to K; the quantity of a leg is floor(notional_leg / price_leg);
   no trade is opened, and the portfolio with its trade_id is left as it
   was, if either quantity is zero; beta = 0 gives a zero s2 quantity and
   the trade is skipped.  beta is in tenths: q = floor(x / y) is stated as
   q * y <= x < (q + 1) * y. *)
C18_NotionalOf(portfolio) ==
    IF "capital" \in DOMAIN portfolio THEN TRADE_NOTIONAL_PER_PAIR
    ELSE FIXED_THEORETICAL_NOTIONAL

C18_QuantitiesAreFloors(t, K) ==
    LET parts == 10 + Abs(t.hedge_ratio)
    IN /\ t.s1_qty > 0 /\ t.s2_qty > 0
       /\ t.s1_entry_price > 0 /\ t.s2_entry_price > 0
       /\ t.s1_qty * t.s1_entry_price * parts <= K * 10
       /\ K * 10 < (t.s1_qty + 1) * t.s1_entry_price * parts
       /\ t.s2_qty * t.s2_entry_price * parts <= K * Abs(t.hedge_ratio)
       /\ K * Abs(t.hedge_ratio) < (t.s2_qty + 1) * t.s2_entry_price * parts

(* a leg's quantity floor(notional_leg / price_leg) would be zero *)
C18_SomeQuantityZero(sig, s1_price, s2_price, K) ==
    LET parts == 10 + Abs(sig.hedge_ratio)
    IN \/ s1_price <= 0 \/ s2_price <= 0
       \/ K * 10 < s1_price * parts
       \/ K * Abs(sig.hedge_ratio) < s2_price * parts

C18_OpenTradesSized ==
    \A portfolio \in Portfolios : \A pair \in OpenPairs(portfolio) :
        C18_QuantitiesAreFloors(portfolio.open_trades[pair], C18_NotionalOf(portfolio))

C18_ZeroQuantitySkipsTheTrade ==
    /\ (/\ last' # last
        /\ IsEnter(last'.signal_theo) /\ ~last'.theo_open
        /\ C18_SomeQuantityZero(last'.signal_theo, last'.s1_price, last'.s2_price,
                                FIXED_THEORETICAL_NOTIONAL))
          => theoretical_portfolio' = theoretical_portfolio
    /\ (/\ last' # last
        /\ IsEnter(last'.signal_real) /\ ~last'.real_open
        /\ HasCapacity(realistic_portfolio)
        /\ C18_SomeQuantityZero(last'.signal_real, last'.s1_price, last'.s2_price,
                                TRADE_NOTIONAL_PER_PAIR))
          => realistic_portfolio' = realistic_portfolio
    /\ (/\ last' # last
        /\ IsEnter(last'.signal_theo) /\ ~last'.theo_open
        /\ last'.signal_theo.hedge_ratio = 0)
          => /\ theoretical_portfolio' = theoretical_portfolio
             /\ realistic_portfolio'.open_trades = realistic_portfolio.open_trades
             /\ realistic_portfolio'.trade_id = realistic_portfolio.trade_id

C18_NotionalSplitAndFloorQuantities ==
    /\ []C18_OpenTradesSized
    /\ [][C18_ZeroQuantitySkipsTheTrade]_vars

(* a trade has been made whose s2 leg is worth well over its s1 leg
   (|beta| = 2), and the last visit got an ENTER with beta = 0 for a flat pair
   and opened nothing *)
C18_Witness ==
    /\ \E c \in ClosedOf(theoretical_portfolio) :
          c.s2_qty * c.s2_entry_price
              > c.s1_qty * c.s1_entry_price + FIXED_THEORETICAL_NOTIONAL \div 4
    /\ IsEnter(last.signal_theo) /\ ~last.theo_open
    /\ last.signal_theo.hedge_ratio = 0
    /\ last.pair \notin OpenPairs(theoretical_portfolio)

---------------------------------------------------------------------------
(* tolerance of the sizing bound: epsilon = 1e-6 of the notional *)
C19_Tolerance(notional) == notional \div 1000000

(* |beta| * notional_s1 + notional_s2, beta in tenths *)
C19_WeightedNotional(beta) ==
    LET n == LegNotionals(TRADE_NOTIONAL_PER_PAIR, beta)
    IN (Abs(beta) * n.s1) \div 10 + n.s2

(* C19 as stated: for every realistic trade,
   |beta| * notional_s1 + notional_s2 does not exceed
   TRADE_NOTIONAL_PER_PAIR * (1 + epsilon). *)
C19_WeightedNotionalWithinNotional ==
    \A pair \in OpenPairs(realistic_portfolio) :
        C19_WeightedNotional(realistic_portfolio.open_trades[pair].hedge_ratio)
            <= TRADE_NOTIONAL_PER_PAIR + C19_Tolerance(TRADE_NOTIONAL_PER_PAIR)

(* C19, amended: for every realistic trade the two leg notionals sum to
   TRADE_NOTIONAL_PER_PAIR (to the unit) and the value of the shares bought
   does not exceed it; notional_s2 is |beta| times notional_s1, and
   |beta| * notional_s1 + notional_s2 stays within
   TRADE_NOTIONAL_PER_PAIR * (1 + epsilon) exactly for |beta| <= 1 and below
   twice TRADE_NOTIONAL_PER_PAIR for every beta. *)
C19_LegNotionalsSumToNotional ==
    \A pair \in OpenPairs(realistic_portfolio) :
        LET t == realistic_portfolio.open_trades[pair]
            n == LegNotionals(TRADE_NOTIONAL_PER_PAIR, t.hedge_ratio)
        IN /\ n.s1 + n.s2 <= TRADE_NOTIONAL_PER_PAIR
           /\ n.s1 + n.s2 >= TRADE_NOTIONAL_PER_PAIR - 1
           /\ t.s1_qty * t.s1_entry_price <= n.s1
           /\ t.s2_qty * t.s2_entry_price <= n.s2
           /\ (Abs(t.hedge_ratio) * n.s1) \div 10 <= n.s2 + 1
           /\ n.s2 <= (Abs(t.hedge_ratio) * n.s1) \div 10 + Abs(t.hedge_ratio)
           /\ C19_WeightedNotional(t.hedge_ratio)
                    <= TRADE_NOTIONAL_PER_PAIR
                           + C19_Tolerance(TRADE_NOTIONAL_PER_PAIR)
                <=> Abs(t.hedge_ratio) <= 10
           /\ C19_WeightedNotional(t.hedge_ratio) < 2 * TRADE_NOTIONAL_PER_PAIR

(* a realistic trade is open with |beta| = 2 *)
C19_Witness ==
    \E pair \in OpenPairs(realistic_portfolio) :
        Abs(realistic_portfolio.open_trades[pair].hedge_ratio) = 20

---------------------------------------------------------------------------
(* C20: the engine emits no signal for a pair in a cycle where the standard
   deviation of the lookback spread is below epsilon (about 1e-6), zero
   included, and the pair's position state is left as it was. *)
C20_NoSignalBelowEpsilon ==
    \A pair \in PairsToCheck :
        (/\ pair[1] \in all_data_dict.present /\ pair[2] \in all_data_dict.present
         /\ all_data_dict.len >= ROLLING_WINDOW
         /\ all_data_dict.stat[pair].kind \in {"std0", "tiny"})
            => /\ SignalsOf(pair) = {}
               /\ pair \in DOMAIN evaluated
                     <=> pair \in DOMAIN strategy_cache.open_positions
               /\ pair \in DOMAIN evaluated
                     => strategy_cache.open_positions[pair] = evaluated[pair]

---------------------------------------------------------------------------
(* C21: when fewer than ROLLING_WINDOW aligned bars are available for a
   pair the engine returns no signal for it and leaves its position state
   as it was; with exactly ROLLING_WINDOW aligned bars it evaluates the pair
   (a flat pair beyond the entry threshold gets its ENTER signal). *)
C21_ShortWindowNoSignal ==
    \A pair \in PairsToCheck :
        (pair[1] \in all_data_dict.present /\ pair[2] \in all_data_dict.present)
            => LET ob == all_data_dict.stat[pair]
                   rows == RollingRows(ob, all_data_dict.len)
               IN /\ rows < ROLLING_WINDOW
                     => /\ SignalsOf(pair) = {}
                        /\ pair \in DOMAIN evaluated
                              <=> pair \in DOMAIN strategy_cache.open_positions
                        /\ pair \in DOMAIN evaluated
                              => strategy_cache.open_positions[pair] = evaluated[pair]
                  /\ (/\ rows = ROLLING_WINDOW /\ ob.kind = "exact"
                      /\ pair \notin DOMAIN evaluated /\ ob.z > Z_SCORE_ENTRY)
                        => EmittedWith(pair, "ENTER_SHORT", "Z-Score > Z_ENTRY")

(* a pair with an open position met a cycle with ROLLING_WINDOW - 1 aligned
   bars and kept the position without a signal *)
C21_Witness ==
    \E pair \in PairsToCheck \cap DOMAIN evaluated :
        /\ pair[1] \in all_data_dict.present /\ pair[2] \in all_data_dict.present
        /\ all_data_dict.stat[pair].kind = "short"
        /\ all_data_dict.len >= ROLLING_WINDOW
        /\ SignalsOf(pair) = {}

(* a flat pair with exactly ROLLING_WINDOW aligned bars got a signal *)
C21_WitnessExact ==
    \E pair \in PairsToCheck \ DOMAIN evaluated :
        /\ all_data_dict.stat[pair].kind = "exact"
        /\ SignalsOf(pair) # {}

---------------------------------------------------------------------------
(* position of a symbol in the order the universe was supplied in *)
C22_SupplyRank(s) == CHOOSE k \in 1..Len(symbols) : symbols[k] = s

(* rank of a symbol in the lexicographic order of the symbol strings *)
C22_LexRank(s) == CASE s = "A" -> 1 [] s = "B" -> 2 [] s = "C" -> 3

(* C22 as stated: every admitted pair (s1, s2) has s1 < s2 as strings,
   whatever the order in which the symbols were supplied. *)
C22_PairsLexicographic ==
    \A pair_info \in SeqToSet(strategy_cache.cointegrated_pairs) :
        C22_LexRank(pair_info.pair[1]) < C22_LexRank(pair_info.pair[2])

(* C22, amended: every admitted pair (s1, s2) has s1 before s2 in the order
   in which the symbols were supplied, and no unordered pair is admitted
   twice. *)
C22_PairsInSupplyOrderOnce ==
    /\ \A pair_info \in SeqToSet(strategy_cache.cointegrated_pairs) :
          C22_SupplyRank(pair_info.pair[1]) < C22_SupplyRank(pair_info.pair[2])
    /\ \A k, m \in 1..Len(strategy_cache.cointegrated_pairs) :
          k # m =>
            {strategy_cache.cointegrated_pairs[k].pair[1],
             strategy_cache.cointegrated_pairs[k].pair[2]}
              # {strategy_cache.cointegrated_pairs[m].pair[1],
                 strategy_cache.cointegrated_pairs[m].pair[2]}

(* with the universe supplied as B, A, C the pairs (B, A) and (A, C) are
   both admitted *)
C22_Witness ==
    /\ <<"B", "A">> \in PairsToCheck
    /\ <<"A", "C">> \in PairsToCheck

---------------------------------------------------------------------------
(* C23: within a bar of the backtest trades are closed before new ones are
   opened, so a realistic ENTER is counted in signals_skipped only when the
   realistic portfolio holds MAX_CONCURRENT_PAIRS open trades with the
   exits of that bar applied: from any state of the replay, whatever the
   pairs still to visit show and in whatever order they are visited, a bar
   that counts a skipped signal ends with a full realistic portfolio (a
   full portfolio stays full once the exits of the bar are behind). *)
C23_SkippedIn(after) ==
    after.realistic.signals_skipped - realistic_portfolio.signals_skipped

C23_SkippedOnlyWhenFullAfterExits ==
    \A obs \in [todo -> BarObservations(symbols)] :
        \A order \in Orders(todo) :
            LET after == RunBar(realistic_portfolio, theoretical_portfolio,
                                order, 1, obs)
            IN C23_SkippedIn(after) > 0
                  => Cardinality(OpenPairs(after.realistic)) = MAX_CONCURRENT_PAIRS

---------------------------------------------------------------------------
(* C24: the admitted set of the backtest is recomputed on exactly the bars
   i with (i - FORMATION_PERIOD) mod RECALC_PERIOD = 0, the first replayed
   bar included, from the FORMATION_PERIOD rows of every symbol that end at
   bar i; the result of the search replaces the previous set as a whole,
   and on every other step the set is left as it is. *)
C24_Due ==
    /\ i' # i
    /\ (i' - FORMATION_PERIOD_CANDLES) % PAIR_RECALC_PERIOD_CANDLES = 0

C24_SearchedOnSlicesEndingAtBar ==
    /\ \A s \in SeqToSet(symbols) :
          formation_slice(s, i') =
              [first |-> i' - FORMATION_PERIOD_CANDLES + 1, last |-> i']
    /\ \E stats \in FormationStats(symbols) :
          strategy_cache'.cointegrated_pairs =
              find_cointegrated_pairs(SeqToSet(symbols), stats, symbols)

C24_RecalculatedOnSchedule ==
    [][/\ C24_Due => C24_SearchedOnSlicesEndingAtBar
       /\ ~C24_Due => strategy_cache'.cointegrated_pairs
                          = strategy_cache.cointegrated_pairs]_vars

(* the second search of a replay found nothing, and the admitted set is
   empty although a pair of the first search is still held *)
C24_Witness ==
    /\ i = FORMATION_PERIOD_CANDLES + PAIR_RECALC_PERIOD_CANDLES
    /\ strategy_cache.cointegrated_pairs = <<>>
    /\ OpenPairs(theoretical_portfolio) # {}

(* between two searches the admitted set of the first one is in use *)
C24_WitnessBetween ==
    /\ i = FORMATION_PERIOD_CANDLES + 1
    /\ strategy_cache.cointegrated_pairs # <<>>
    /\ engine_calls # {}

---------------------------------------------------------------------------
(* C25: the two portfolios of the backtest are independent.  From any state
   of the replay, whatever the pairs still to visit show and in whatever
   order they are visited: the theoretical portfolio the bar leaves, and
   the theoretical signal of every single visit, are the same for every
   realistic portfolio the replay could be holding instead (an empty one,
   or one that a cap of any size let take every trade the theoretical
   portfolio took), and the realistic portfolio and signal are the same for
   every theoretical portfolio held instead. *)
C25_OtherRealistic ==
    {NewRealisticPortfolio,
     [realistic_portfolio EXCEPT !.open_trades = theoretical_portfolio.open_trades]}

C25_OtherTheoretical ==
    {NewTheoreticalPortfolio,
     [theoretical_portfolio EXCEPT !.open_trades = realistic_portfolio.open_trades]}

C25_VisitIndependent(pair_tuple, ob) ==
    LET own == PairBody(realistic_portfolio, theoretical_portfolio,
                        strategy_cache.cointegrated_pairs, pair_tuple, ob, i)
    IN /\ \A other \in C25_OtherRealistic :
            LET out == PairBody(other, theoretical_portfolio,
                                strategy_cache.cointegrated_pairs, pair_tuple, ob, i)
            IN /\ out.theoretical = own.theoretical
               /\ out.visit.signal_theo = own.visit.signal_theo
       /\ \A other \in C25_OtherTheoretical :
            LET out == PairBody(realistic_portfolio, other,
                                strategy_cache.cointegrated_pairs, pair_tuple, ob, i)
            IN /\ out.realistic = own.realistic
               /\ out.visit.signal_real = own.visit.signal_real

C25_PortfoliosIndependent ==
    /\ \A pair_tuple \in todo, ob \in BarObservations(symbols) :
          C25_VisitIndependent(pair_tuple, ob)
    /\ \A obs \in [todo -> BarObservations(symbols)] :
          \A order \in Orders(todo) :
             LET own == RunBar(realistic_portfolio, theoretical_portfolio,
                               order, 1, obs)
             IN /\ \A other \in C25_OtherRealistic :
                      RunBar(other, theoretical_portfolio, order, 1, obs).theoretical
                        = own.theoretical
                /\ \A other \in C25_OtherTheoretical :
                      RunBar(realistic_portfolio, other, order, 1, obs).realistic
                        = own.realistic

(* the portfolios have come apart: the realistic one is full and flat in a
   pair that the theoretical one holds and that is still to be visited *)
C25_Witness ==
    /\ \E pair_tuple \in todo :
          /\ pair_tuple \in OpenPairs(theoretical_portfolio)
          /\ pair_tuple \notin OpenPairs(realistic_portfolio)
    /\ Cardinality(OpenPairs(realistic_portfolio)) = MAX_CONCURRENT_PAIRS
    /\ realistic_portfolio.signals_skipped > 0

---------------------------------------------------------------------------
(* C26: the z-score of the current bar is computed against a hedge ratio, a
   mean and a standard deviation fitted on the ROLLING_WINDOW bars that
   precede it: for every pair whose z-score a cycle computed, the row the
   z-score is taken for is the last row of the frame and is not among the
   rows of the fit, which are the ROLLING_WINDOW rows before it. *)
C26_CurrentBarHeldOut ==
    \A pair \in Reached :
        LET fit == rolling_window(all_data_dict.len)
            current == current_row(all_data_dict.len)
        IN /\ current = all_data_dict.len - 1
           /\ ~(fit.first <= current /\ current <= fit.last)
           /\ fit = [first |-> current - ROLLING_WINDOW, last |-> current - 1]

(* a cycle computed a z-score and emitted an entry on it *)
C26_Witness ==
    /\ Reached # {}
    /\ \E k \in 1..Len(signals) :
          signals[k].signal_type \in {"ENTER_LONG", "ENTER_SHORT"}

---------------------------------------------------------------------------
(* C27: every closed trade of either portfolio carries: a gross PnL that is
   the sum over its legs of (exit - entry) * qty for the long leg and
   (entry - exit) * qty for the short leg; transaction costs of turnover *
   bps / 10000; borrow costs of the short leg's entry notional * annual
   rate * days_held / 365, where days_held is the number of whole days
   between the entry and the exit timestamps but never less than one; and
   net_pnl = gross - transaction costs - borrow costs.  The trade is in
   closed_trades once and no longer in open_trades. *)
C27_Rates == {0, 5, 12}

C27_WholeDays(c) == (c.exit_timestamp - c.entry_timestamp) \div 1440

C27_Gross(c) ==
    IF c.direction = "LONG"
    THEN (c.s1_exit_price - c.s1_entry_price) * c.s1_qty
            + (c.s2_entry_price - c.s2_exit_price) * c.s2_qty
    ELSE (c.s1_entry_price - c.s1_exit_price) * c.s1_qty
            + (c.s2_exit_price - c.s2_entry_price) * c.s2_qty

C27_Turnover(c) ==
    (c.s1_entry_price + c.s1_exit_price) * c.s1_qty
        + (c.s2_entry_price + c.s2_exit_price) * c.s2_qty

C27_ShortNotional(c) ==
    IF c.direction = "LONG" THEN c.s2_entry_price * c.s2_qty
    ELSE c.s1_entry_price * c.s1_qty

C27_Accounted(c) ==
    /\ c.gross_pnl = C27_Gross(c)
    /\ c.transaction_costs = (C27_Turnover(c) * TRANSACTION_COST_BPS) \div 10000
    /\ c.borrow_costs =
          (C27_ShortNotional(c) * ANNUAL_BORROW_COST_PERCENT * c.days_held) \div 36500
    /\ c.net_pnl = c.gross_pnl - c.transaction_costs - c.borrow_costs
    /\ \A bps \in C27_Rates, annual_percent \in C27_Rates :
          trade_costs(C27_Turnover(c), C27_ShortNotional(c), c.days_held,
                      bps, annual_percent)
            = [transaction_costs |-> (C27_Turnover(c) * bps) \div 10000,
               borrow_costs |->
                   (C27_ShortNotional(c) * annual_percent * c.days_held) \div 36500]

C27_MovedOnce(portfolio) ==
    /\ \A k, m \in 1..Len(portfolio.closed_trades) :
          portfolio.closed_trades[k].serial_number
              = portfolio.closed_trades[m].serial_number => k = m
    /\ \A c \in ClosedOf(portfolio), pair \in OpenPairs(portfolio) :
          portfolio.open_trades[pair].serial_number # c.serial_number

(* the claim as stated: days_held is the number of whole days elapsed *)
C27_DaysHeldAreWholeDays ==
    \A portfolio \in Portfolios : \A c \in ClosedOf(portfolio) :
        c.days_held = C27_WholeDays(c)

C27_ClosedTradeAccounting ==
    \A portfolio \in Portfolios :
        /\ C27_MovedOnce(portfolio)
        /\ \A c \in ClosedOf(portfolio) :
              /\ C27_Accounted(c)
              /\ c.days_held = IF C27_WholeDays(c) > 1 THEN C27_WholeDays(c) ELSE 1

(* a trade held for two whole days is on the books with a gain or a loss *)
C27_Witness ==
    \E c \in ClosedOf(realistic_portfolio) :
        /\ C27_WholeDays(c) = 2 /\ c.days_held = 2
        /\ c.gross_pnl # 0 /\ c.net_pnl = c.gross_pnl
        /\ realistic_portfolio.capital = INITIAL_CAPITAL + c.net_pnl

(* a trade closed within a day of its entry is charged one day *)
C27_WitnessIntraday ==
    \E c \in ClosedOf(theoretical_portfolio) :
        C27_WholeDays(c) = 0 /\ c.days_held = 1

---------------------------------------------------------------------------
(* C28: on an external interrupt the live driver starts no new work and
   terminates: once the loop has been left no step follows (no further
   cycle, no sleep, no write to the cache); the cache holds a newly stored
   admitted set together with the recalculation instant of an older one
   only where the loop has been left, so that no read of the driver finds
   it so; and after any other exception inside a cycle the loop goes on:
   the next cycle can start. *)
C28_HalfWritten == cycle.stored # last_recalc_time

C28_NothingAfterInterrupt == cycle.outcome = "interrupted" => UNCHANGED vars

C28_InterruptEndsTheLoop ==
    /\ [](C28_HalfWritten => cycle.outcome = "interrupted")
    /\ []((cycle.outcome = "exception" /\ now < LiveTicks) => ENABLED LiveCycle)
    /\ [][C28_NothingAfterInterrupt]_vars

(* an interrupt has arrived between the two stores of a refresh later than
   the first: the cache is left with the new admitted set and the instant
   of the earlier refresh *)
C28_Witness ==
    /\ cycle.outcome = "interrupted"
    /\ C28_HalfWritten
    /\ last_recalc_time # -1
    /\ strategy_cache.cointegrated_pairs = recalculated
    /\ recalculated # <<>>

(* a cycle has ended in an exception and the loop is running *)
C28_WitnessException ==
    /\ cycle.outcome = "exception"
    /\ now < LiveTicks
    /\ ENABLED LiveCycle

---------------------------------------------------------------------------
(***************************************************************************)
(* Part IV.  backtester.py: the start-up of run_trade_simulator            *)
(* (lines 86-121), from the configured TIMEFRAME to the first bar of the    *)
(* replay.  A timeframe is the sequence of its characters.                 *)
(***************************************************************************)

(* the timeframes the data fetcher knows: data_fetcher.py lines 73 and 159 *)
TimeframeOptions ==
    {<<"1", "M">>, <<"5", "M">>, <<"1", "5", "M">>, <<"3", "0", "M">>,
     <<"6", "0", "M">>, <<"2", "4", "0", "M">>, <<"D">>, <<"W">>}

(* values tried besides the options: lines 55 and 88 *)
OtherTimeframes == {<<"1", "4", "4", "0", "M">>, <<"0", "M">>}

FormationPeriodDays == {1, 78}

PairRecalcPeriodDays == {1, 15}

(* candles the price store holds for every symbol *)
StoredCandles == {0, 100000}

(* TIMEFRAME.replace('M', '') *)
replace_M(timeframe) == SelectSeq(timeframe, LAMBDA c : c # "M")

Digits == {"0", "1", "2", "3", "4", "5", "6", "7", "8", "9"}

DigitValue(c) ==
    CASE c = "0" -> 0 [] c = "1" -> 1 [] c = "2" -> 2 [] c = "3" -> 3
      [] c = "4" -> 4 [] c = "5" -> 5 [] c = "6" -> 6 [] c = "7" -> 7
      [] c = "8" -> 8 [] c = "9" -> 9

RECURSIVE DecimalValue(_, _)
DecimalValue(chars, k) ==
    IF k = 0 THEN 0
    ELSE 10 * DecimalValue(chars, k - 1) + DigitValue(chars[k])

(* int(...): the value of a string of decimal digits, ValueError otherwise *)
int(chars) ==
    IF chars = <<>> \/ \E k \in 1..Len(chars) : chars[k] \notin Digits
    THEN [raised |-> "ValueError", value |-> 0]
    ELSE [raised |-> "", value |-> DecimalValue(chars, Len(chars))]

(* line 87: 60 // int(TIMEFRAME.replace('M', '')) *)
bars_per_hour(minutes) ==
    60 \div minutes

(* lines 86-90 *)
parse_timeframe ==
    /\ setup.phase = "start"
    /\ LET minutes == int(replace_M(setup.TIMEFRAME))
       IN setup' =
            IF minutes.raised # "" \/ minutes.value = 0
            THEN [setup EXCEPT !.phase = "invalid timeframe"]
            ELSE [setup EXCEPT !.phase = "parsed",
                               !.bars_per_hour = bars_per_hour(minutes.value)]
    /\ UNCHANGED <<engine_vars, i, length, open_price, realistic_portfolio,
                   theoretical_portfolio, todo, engine_calls, last, live_vars>>

(* lines 92-98; int(6.5 * bars_per_hour) *)
derive_periods ==
    /\ setup.phase = "parsed"
    /\ LET BARS_PER_DAY == (13 * setup.bars_per_hour) \div 2
       IN setup' =
            [setup EXCEPT
                !.phase = "derived",
                !.BARS_PER_DAY = BARS_PER_DAY,
                !.FORMATION_PERIOD_CANDLES = setup.FORMATION_PERIOD_DAYS * BARS_PER_DAY,
                !.PAIR_RECALC_PERIOD_CANDLES =
                    setup.PAIR_RECALC_PERIOD_DAYS * BARS_PER_DAY,
                !.total_candles_to_fetch =
                    setup.FORMATION_PERIOD_DAYS * BARS_PER_DAY
                        + setup.PAIR_RECALC_PERIOD_DAYS * BARS_PER_DAY * 5]
    /\ UNCHANGED <<engine_vars, i, length, open_price, realistic_portfolio,
                   theoretical_portfolio, todo, engine_calls, last, live_vars>>

(* lines 96-110: fetch_data returns the last total_candles_to_fetch rows of
   what the store holds (data_fetcher.py line 103); empty frames are dropped
   and the aligned frame must be longer than the formation period *)
load_history ==
    /\ setup.phase = "derived"
    /\ LET rows == Min(setup.stored, setup.total_candles_to_fetch)
       IN setup' =
            [setup EXCEPT !.rows = rows,
                          !.phase = IF rows <= setup.FORMATION_PERIOD_CANDLES
                                    THEN "not enough data" ELSE "loaded"]
    /\ UNCHANGED <<engine_vars, i, length, open_price, realistic_portfolio,
                   theoretical_portfolio, todo, engine_calls, last, live_vars>>

(* lines 118-121: the first pass of the loop over the bars evaluates
   (i - FORMATION_PERIOD_CANDLES) % PAIR_RECALC_PERIOD_CANDLES *)
first_bar ==
    /\ setup.phase = "loaded"
    /\ setup' = [setup EXCEPT !.phase = IF setup.PAIR_RECALC_PERIOD_CANDLES = 0
                                        THEN "ZeroDivisionError" ELSE "replay"]
    /\ UNCHANGED <<engine_vars, i, length, open_price, realistic_portfolio,
                   theoretical_portfolio, todo, engine_calls, last, live_vars>>

(* lines 27-29 and 70-85: the configuration the start-up finds *)
SetupInit ==
    /\ setup \in [TIMEFRAME : TimeframeOptions \cup OtherTimeframes,
                  FORMATION_PERIOD_DAYS : FormationPeriodDays,
                  PAIR_RECALC_PERIOD_DAYS : PairRecalcPeriodDays,
                  stored : StoredCandles,
                  phase : {"start"},
                  bars_per_hour : {-1}, BARS_PER_DAY : {-1},
                  FORMATION_PERIOD_CANDLES : {-1},
                  PAIR_RECALC_PERIOD_CANDLES : {-1},
                  total_candles_to_fetch : {-1}, rows : {-1}]
    /\ symbols = <<"A", "B">>
    /\ strategy_cache = [first_run |-> TRUE, cointegrated_pairs |-> <<>>,
                         open_positions |-> EmptyDict]
    /\ candles = 0
    /\ all_data_dict = [present |-> {}, len |-> 0, stat |-> EmptyDict]
    /\ formation = EmptyDict
    /\ signals = <<>>
    /\ evaluated = EmptyDict
    /\ entered_at = EmptyDict
    /\ ReplayIdle
    /\ LiveIdle

SetupNext == parse_timeframe \/ derive_periods \/ load_history \/ first_bar

SpecSetup == SetupInit /\ [][SetupNext]_vars

(* C29: for every option of TIMEFRAME (1M, 5M, 15M, 30M, 60M, 240M, D, W)
   the backtest driver either rejects the value with the invalid-timeframe
   error before any replay, or derives at least one bar per day, so that
   FORMATION_PERIOD_CANDLES and PAIR_RECALC_PERIOD_CANDLES are both at least
   1 and the test (i - FORMATION_PERIOD_CANDLES) mod
   PAIR_RECALC_PERIOD_CANDLES is defined. *)
C29_TimeframeRejectedOrUsable ==
    (setup.phase \notin {"idle", "start", "parsed"}
        /\ setup.TIMEFRAME \in TimeframeOptions)
      => \/ setup.phase = "invalid timeframe"
         \/ /\ setup.BARS_PER_DAY >= 1
            /\ setup.FORMATION_PERIOD_CANDLES >= 1
            /\ setup.PAIR_RECALC_PERIOD_CANDLES >= 1

(* the start-up of 240M has ended without the invalid-timeframe error and
   without a replay *)
C29_Witness ==
    /\ setup.phase = "not enough data"
    /\ setup.TIMEFRAME = <<"2", "4", "0", "M">>
    /\ setup.stored > 0
    /\ setup.BARS_PER_DAY = 0

---------------------------------------------------------------------------
(* C30: every closed trade of either backtest portfolio has an
   exit_timestamp strictly later than its entry_timestamp: a trade opened
   from the signal of bar i is closed by the signal of a bar j > i (its
   exit is stamped with the bar after such a j), and the step that closes a
   trade of a pair does not leave that pair open again in the same
   portfolio. *)
C30_ClosedLater(c) ==
    /\ c.exit_timestamp > c.entry_timestamp
    /\ \E j \in (c.entry_candle_index + 1)..i :
          c.exit_timestamp = TimestampOf(j + 1)

C30_NotReopened(before, after) ==
    Len(after.closed_trades) > Len(before.closed_trades)
        => /\ Len(after.closed_trades) = Len(before.closed_trades) + 1
           /\ after.closed_trades[Len(after.closed_trades)].pair
                 \notin OpenPairs(after)
           /\ after.closed_trades[Len(after.closed_trades)].pair
                 \in OpenPairs(before)

C30_NoReopeningOnTheClosingBar ==
    /\ C30_NotReopened(realistic_portfolio, realistic_portfolio')
    /\ C30_NotReopened(theoretical_portfolio, theoretical_portfolio')

C30_ExitAfterEntry ==
    /\ [](\A portfolio \in Portfolios : \A c \in ClosedOf(portfolio) :
             C30_ClosedLater(c))
    /\ [][C30_NoReopeningOnTheClosingBar]_vars

(* a pair was closed on the bar after its entry and has been entered again
   on a later bar *)
C30_Witness ==
    \E c \in ClosedOf(realistic_portfolio) :
        /\ c.exit_timestamp = TimestampOf(c.entry_candle_index + 2)
        /\ c.pair \in OpenPairs(realistic_portfolio)
        /\ realistic_portfolio.open_trades[c.pair].entry_timestamp > c.exit_timestamp

====
